---- MODULE Spec2Model ----
(***************************************************************************)
(* Model of dysonsphere.py: the byte stream reader (_Reader), the decode   *)
(* and traversal routines generated by _Codegen for every Object subclass, *)
(* load_data / load_all, and do_all / find_all.                            *)
(***************************************************************************)
EXTENDS Integers, Sequences, FiniteSets, TLC

VARIABLES
    fs,        \* the directory: file name (kind) -> byte sequence, or Missing
    pc,        \* position of the running call
    call,      \* the top-level call being executed and its arguments
    kindIdx,   \* load_all: index into _VALID_TYPES of the kind being loaded
    cur,       \* load_data: [data_type, filename] of the load in progress
    handles,   \* file handles: sequence of [file, open]
    rd,        \* reader state of the load in progress: [pos, reads, log]
    loaded,    \* load_all: the dict built so far (sequence of <<kind, RecordSet>>)
    outcome,   \* what the top-level call returned or raised
    heap,      \* default-constructed object graph used by do_all / find_all
    visited,   \* the visitor's invocations: sequence of <<node, type>>
    found      \* the do_all / find_all call made and what it returned or raised

vars == <<fs, pc, call, kindIdx, cur, handles, rd, loaded, outcome, heap, visited, found>>

\* the content of a file that does not exist (no byte is -1)
Missing == <<-1>>
NoErr == "none"

Min(a, b) == IF a < b THEN a ELSE b

(***************************************************************************)
(* Bytes and primitive conversions                                         *)
(***************************************************************************)

\* io.BufferedReader.read(n) at offset pos of a file holding data:
\* returns at most n bytes, all remaining bytes for n = -1, and raises
\* ValueError for n < -1.
ReadFun(data, pos, n) ==
    IF n < -1 THEN [bytes |-> <<>>, pos |-> pos, err |-> "ValueError"]
    ELSE LET stop == IF n = -1 THEN Len(data) ELSE Min(pos + n, Len(data))
         IN [bytes |-> SubSeq(data, pos + 1, stop), pos |-> stop, err |-> NoErr]

RECURSIVE Unsigned(_)
\* little-endian unsigned value of at most 3 bytes
Unsigned(b) ==
    IF Len(b) = 0 THEN 0 ELSE b[1] + 256 * Unsigned(Tail(b))

\* int.from_bytes(b, 'little', signed=True) for len(b) <= 4: two's complement
\* over exactly the bytes supplied, 0 for no bytes.
IntFromBytes(b) ==
    IF Len(b) = 0 THEN 0
    ELSE LET n   == Len(b)
             top == b[n]
             low == Unsigned(SubSeq(b, 1, n - 1))
             w   == IF n = 1 THEN 1 ELSE IF n = 2 THEN 256
                    ELSE IF n = 3 THEN 65536 ELSE 16777216
         IN low + w * (IF top >= 128 THEN top - 256 ELSE top)

\* int.from_bytes(b, 'little', signed=True) for len(b) <= 8, kept as the
\* 8-byte two's complement pattern of the value (the value is sign-extended
\* from the bytes supplied).
Int64FromBytes(b) ==
    LET fill == IF Len(b) > 0 /\ b[Len(b)] >= 128 THEN 255 ELSE 0
    IN [i64 |-> [i \in 1..8 |-> IF i <= Len(b) THEN b[i] ELSE fill]]

IsCont(x) == x >= 128 /\ x <= 191

\* the length of the UTF-8 sequence a byte starts, 0 if it starts none
SeqLen(b1) ==
    IF b1 < 128 THEN 1
    ELSE IF b1 >= 194 /\ b1 <= 223 THEN 2
    ELSE IF b1 >= 224 /\ b1 <= 239 THEN 3
    ELSE IF b1 >= 240 /\ b1 <= 244 THEN 4
    ELSE 0

\* the bytes of b from position i on start with one well-formed sequence
WellFormedAt(b, i) ==
    LET n == SeqLen(b[i])
    IN /\ n > 0
       /\ i + n - 1 <= Len(b)
       /\ \A k \in 1..(n - 1) : IsCont(b[i + k])
       /\ (b[i] = 224 => b[i + 1] >= 160)
       /\ (b[i] = 237 => b[i + 1] <= 159)
       /\ (b[i] = 240 => b[i + 1] >= 144)
       /\ (b[i] = 244 => b[i + 1] <= 143)

\* the code point of the well-formed sequence starting at position i
CodePointAt(b, i) ==
    LET n == SeqLen(b[i])
    IN IF n = 1 THEN b[i]
       ELSE IF n = 2 THEN (b[i] - 192) * 64 + (b[i + 1] - 128)
       ELSE IF n = 3 THEN (b[i] - 224) * 4096 + (b[i + 1] - 128) * 64
                          + (b[i + 2] - 128)
       ELSE (b[i] - 240) * 262144 + (b[i + 1] - 128) * 4096
            + (b[i + 2] - 128) * 64 + (b[i + 3] - 128)

RECURSIVE CodePoints(_, _, _)
\* the code points of the sequences of b starting at positions lo..hi
CodePoints(b, lo, hi) ==
    IF lo > hi THEN <<>>
    ELSE IF lo = hi
         THEN IF IsCont(b[lo]) THEN <<>> ELSE <<CodePointAt(b, lo)>>
    ELSE LET mid == (lo + hi) \div 2
         IN CodePoints(b, lo, mid) \o CodePoints(b, mid + 1, hi)

\* bytes.decode(): strict UTF-8; [ok, cps] with cps the code points.  The
\* bytes are well-formed when every byte that is no continuation byte starts
\* a well-formed sequence and every continuation byte lies inside the
\* sequence started by the nearest such byte before it.
Utf8Decode(b) ==
    LET ok == \A i \in 1..Len(b) :
                 IF ~IsCont(b[i]) THEN WellFormedAt(b, i)
                 ELSE \E d \in 1..3 :
                         /\ i - d >= 1
                         /\ ~IsCont(b[i - d])
                         /\ SeqLen(b[i - d]) > d
                         /\ \A k \in 1..(d - 1) : IsCont(b[i - k])
    IN IF ~ok THEN [ok |-> FALSE, cps |-> <<>>]
       ELSE [ok |-> TRUE, cps |-> CodePoints(b, 1, Len(b))]

(***************************************************************************)
(* Enums and layouts                                                       *)
(***************************************************************************)

ERecipeType == {0, 1, 2, 3, 4, 5, 6, 7, 8, 15}
EItemType == 0..10

EnumMembers(name) ==
    IF name = "ERecipeType" THEN ERecipeType ELSE EItemType

\* A layout is the parsed _layout: <<field name, read method, argument>>.
F(name, method, arg) == [name |-> name, method |-> method, arg |-> arg]

ItemProto ==
    << F("name", "string", ""), F("id", "int32", ""), F("sid", "string", ""),
       F("type", "enum", "EItemType"), F("sub_id", "int32", ""),
       F("mining_from", "string", ""), F("produce_from", "string", ""),
       F("stack_size", "int32", ""), F("grade", "int32", ""),
       F("upgrades", "array_int32", ""), F("is_fluid", "bool", ""),
       F("is_entity", "bool", ""), F("can_build", "bool", ""),
       F("build_in_gas", "bool", ""), F("icon_path", "string", ""),
       F("model_index", "int32", ""), F("model_count", "int32", ""),
       F("hp_max", "int32", ""), F("ability", "int32", ""),
       F("heat_value", "int64", ""), F("potential", "int64", ""),
       F("reactor_inc", "float", ""), F("fuel_type", "int32", ""),
       F("build_index", "int32", ""), F("build_mode", "int32", ""),
       F("grid_index", "int32", ""), F("unlock_key", "int32", ""),
       F("pre_tech_override", "int32", ""), F("productive", "bool", ""),
       F("mecha_material_id", "int32", ""),
       F("desc_fields", "array_int32", ""), F("description", "string", "") >>

ItemProtoSet ==
    << F("table_name", "string", ""), F("signature", "string", ""),
       F("data_array", "array", "ItemProto") >>

RecipeProto ==
    << F("name", "string", ""), F("id", "int32", ""), F("sid", "string", ""),
       F("type", "enum", "ERecipeType"), F("handcraft", "bool", ""),
       F("explicit", "bool", ""), F("time_spend", "int32", ""),
       F("items", "array_int32", ""), F("item_counts", "array_int32", ""),
       F("results", "array_int32", ""), F("result_counts", "array_int32", ""),
       F("grid_index", "int32", ""), F("icon_path", "string", ""),
       F("description", "string", ""), F("non_productive", "bool", "") >>

RecipeProtoSet ==
    << F("table_name", "string", ""), F("signature", "string", ""),
       F("data_array", "array", "RecipeProto") >>

StringProto ==
    << F("name", "string", ""), F("id", "int32", ""), F("sid", "string", ""),
       F("zh_cn", "string", ""), F("en_us", "string", ""),
       F("fr_fr", "string", "") >>

StringProtoSet ==
    << F("table_name", "string", ""), F("signature", "string", ""),
       F("data_array", "array", "StringProto") >>

TechProto ==
    << F("name", "string", ""), F("id", "int32", ""), F("sid", "string", ""),
       F("description", "string", ""), F("conclusion", "string", ""),
       F("published", "bool", ""), F("level", "int32", ""),
       F("max_level", "int32", ""), F("level_coef1", "int32", ""),
       F("level_coef2", "int32", ""), F("icon_path", "string", ""),
       F("is_lab_tech", "bool", ""), F("pre_techs", "array_int32", ""),
       F("pre_techs_implicit", "array_int32", ""),
       F("pre_techs_max", "bool", ""), F("items", "array_int32", ""),
       F("item_points", "array_int32", ""),
       F("property_override_items", "array_int32", ""),
       F("property_item_counts", "array_int32", ""),
       F("hash_needed", "int64", ""), F("unlock_recipes", "array_int32", ""),
       F("unlock_functions", "array_int32", ""),
       F("unlock_values", "array_double", ""),
       F("add_items", "array_int32", ""),
       F("add_item_counts", "array_int32", ""),
       F("position", "vector2f", "") >>

TechProtoSet ==
    << F("table_name", "string", ""), F("signature", "string", ""),
       F("data_array", "array", "TechProto") >>

\* Object subclasses of a caller, with two arrays of records, arrays of
\* numbers and strings among the fields: the records of the traversals
Tree ==
    << F("name", "string", ""), F("left", "array", "Branch"),
       F("tags", "array_int32", ""), F("id", "int32", ""),
       F("right", "array", "Branch") >>

Branch ==
    << F("id", "int32", ""), F("weights", "array_int32", ""),
       F("leaves", "array", "Leaf"), F("name", "string", "") >>

Leaf == << F("id", "int32", ""), F("marks", "array_int32", "") >>

\* cls._layout of every Object subclass
Layout(cls) ==
    CASE cls = "ItemProto"      -> ItemProto
      [] cls = "ItemProtoSet"   -> ItemProtoSet
      [] cls = "RecipeProto"    -> RecipeProto
      [] cls = "RecipeProtoSet" -> RecipeProtoSet
      [] cls = "StringProto"    -> StringProto
      [] cls = "StringProtoSet" -> StringProtoSet
      [] cls = "TechProto"      -> TechProto
      [] cls = "TechProtoSet"   -> TechProtoSet
      [] cls = "Tree"           -> Tree
      [] cls = "Branch"         -> Branch
      [] cls = "Leaf"           -> Leaf

(***************************************************************************)
(* The reader and the read_* snippets of _Codegen.  A decode threads the   *)
(* reader state st = [pos, reads, log, err]: the offset, every read_fun    *)
(* call made, every field decoded, and the exception raised (if any).      *)
(***************************************************************************)

\* The longest array the model decodes.  A longer one is a longer run of the
\* same loop in the code; the model stops there with the marker CountBound
\* and the construction is left out of the behaviours (see the guard of
\* ConstructRecordSet).
MaxCount == 16
CountBound == "CountBound"

\* range(n) is within the model's bound
Bounded(c) ==
    IF c.val > MaxCount
    THEN [st |-> [c.st EXCEPT !.err = CountBound], val |-> <<>>]
    ELSE c

NewReader == [pos |-> 0, reads |-> <<>>, log |-> <<>>, err |-> NoErr]

\* the reader after read_fun(n) returned r
AfterRead(st, n, r) ==
    [st    |-> [st EXCEPT !.pos = r.pos,
                          !.reads = Append(@, [at |-> st.pos, want |-> n,
                                               got |-> Len(r.bytes)]),
                          !.err = r.err],
     bytes |-> r.bytes]

\* One call read_fun(n) on the reader.
Read(data, st, n) == AfterRead(st, n, ReadFun(data, st.pos, n))

\* the exception err is raised in the state st
Fail(st, err) == [st |-> [st EXCEPT !.err = err], val |-> 0]

Int32Of(r) == [st |-> r.st, val |-> IntFromBytes(r.bytes)]

\* int.from_bytes(read_fun(4), 'little', signed=True)
read_int32(data, st) == Int32Of(Read(data, st, 4))

Int64Of(r) == [st |-> r.st, val |-> Int64FromBytes(r.bytes)]

\* int.from_bytes(read_fun(8), 'little', signed=True)
read_int64(data, st) == Int64Of(Read(data, st, 8))

\* unpack('f', b)[0]: struct.error unless b holds 4 bytes
FloatOf(r) ==
    IF Len(r.bytes) = 4 THEN [st |-> r.st, val |-> [f32 |-> r.bytes]]
    ELSE Fail(r.st, "struct.error")

\* unpack('f', read_fun(4))[0]
read_float(data, st) == FloatOf(Read(data, st, 4))

\* unpack('d', b)[0]: struct.error unless b holds 8 bytes
DoubleOf(r) ==
    IF Len(r.bytes) = 8 THEN [st |-> r.st, val |-> [f64 |-> r.bytes]]
    ELSE Fail(r.st, "struct.error")

\* unpack('d', read_fun(8))[0]
read_double(data, st) == DoubleOf(Read(data, st, 8))

BoolOf(r) == [st |-> r.st, val |-> (r.val # 0)]

\* bool(read_int32)
read_bool(data, st) == BoolOf(read_int32(data, st))

\* an enum lookup that takes any number
EnumUnchecked(cls_name, r) == r

\* cls_name(n): the IntEnum lookup, ValueError for a non-member
EnumOf(cls_name, r) ==
    IF r.val \in EnumMembers(cls_name) THEN r ELSE Fail(r.st, "ValueError")

\* cls_name(read_int32)
read_enum(cls_name, data, st) == EnumOf(cls_name, read_int32(data, st))

\* result = body.decode(), without the read of the padding
StringUnpadded(data, slen, body, dec) ==
    IF body.st.err # NoErr THEN [st |-> body.st, val |-> <<>>]
    ELSE IF ~dec.ok
         THEN [st |-> [body.st EXCEPT !.err = "UnicodeDecodeError"],
               val |-> <<>>]
    ELSE [st |-> body.st, val |-> dec.cps]

\* result = body.decode(); if slen & 3: read_fun(-slen & 3)
StringPad(data, slen, body, dec) ==
    IF body.st.err # NoErr THEN [st |-> body.st, val |-> <<>>]
    ELSE IF ~dec.ok
         THEN [st |-> [body.st EXCEPT !.err = "UnicodeDecodeError"],
               val |-> <<>>]
    ELSE IF slen % 4 # 0
         THEN [st |-> Read(data, body.st, (-slen) % 4).st, val |-> dec.cps]
    ELSE [st |-> body.st, val |-> dec.cps]

StringDecode(data, slen, body) ==
    StringPad(data, slen, body, Utf8Decode(body.bytes))

\* read_fun(slen) for the slen just read
StringBody(data, l) == StringDecode(data, l.val, Read(data, l.st, l.val))

\* slen = read_int32; result = read_fun(slen).decode();
\* if slen & 3: read_fun(-slen & 3)
_read_base_string(data, st) == StringBody(data, read_int32(data, st))

\* the statements read_string generates: the same steps, inlined
read_string(data, st) == _read_base_string(data, st)

RECURSIVE Int32Elems(_, _, _, _)
Int32Next(data, n, acc, r) ==
    Int32Elems(data, r.st, n - 1, Append(acc, r.val))

\* [read_int32 for x in range(n)]
Int32Elems(data, st, n, acc) ==
    IF n <= 0 THEN [st |-> st, val |-> acc]
    ELSE Int32Next(data, n, acc, read_int32(data, st))

Int32Array(data, c) ==
    IF c.st.err # NoErr THEN c ELSE Int32Elems(data, c.st, c.val, <<>>)

\* [read_int32 for x in range(read_int32)]: the count is read first
read_array_int32(data, st) == Int32Array(data, Bounded(read_int32(data, st)))

RECURSIVE DoubleElems(_, _, _, _)
DoubleNext(data, n, acc, r) ==
    IF r.st.err # NoErr THEN [st |-> r.st, val |-> acc]
    ELSE DoubleElems(data, r.st, n - 1, Append(acc, r.val))

\* [read_double for x in range(n)]
DoubleElems(data, st, n, acc) ==
    IF n <= 0 THEN [st |-> st, val |-> acc]
    ELSE DoubleNext(data, n, acc, read_double(data, st))

DoubleArray(data, c) ==
    IF c.st.err # NoErr THEN c ELSE DoubleElems(data, c.st, c.val, <<>>)

\* [read_double for x in range(read_int32)]
read_array_double(data, st) ==
    DoubleArray(data, Bounded(read_int32(data, st)))

Vector2fOf(x, y) ==
    IF y.st.err # NoErr THEN y ELSE [st |-> y.st, val |-> <<x.val, y.val>>]

Vector2fY(data, x) ==
    IF x.st.err # NoErr THEN x ELSE Vector2fOf(x, read_float(data, x.st))

\* (read_float, read_float)
read_vector2f(data, st) == Vector2fY(data, read_float(data, st))

\* 0; raise ValueError('Tried to parse unexpected type')
read_bad_type(data, st) == Fail(st, "ValueError")

RECURSIVE generate_init(_, _, _, _, _)
RECURSIVE ObjectElems(_, _, _, _, _)

ObjectNext(cls_name, data, n, acc, r) ==
    IF r.st.err # NoErr THEN [st |-> r.st, val |-> acc]
    ELSE ObjectElems(cls_name, data, r.st, n - 1, Append(acc, r.val))

\* [cls_name(read_fun, tell_fun) for i in range(n)]
ObjectElems(cls_name, data, st, n, acc) ==
    IF n <= 0 THEN [st |-> st, val |-> acc]
    ELSE ObjectNext(cls_name, data, n, acc,
                    generate_init(cls_name, 1, data, st, <<>>))

ObjectArray(cls_name, data, c) ==
    IF c.st.err # NoErr THEN c
    ELSE ObjectElems(cls_name, data, c.st, c.val, <<>>)

\* [cls_name(read_fun, tell_fun) for i in range(read_int32)]
read_array(cls_name, data, st) ==
    ObjectArray(cls_name, data, Bounded(read_int32(data, st)))

\* getattr(self, 'read_' + method_name)(*args), as inlined by generate_init
ReadMethod(f, data, st) ==
    CASE f.method = "int32"        -> read_int32(data, st)
      [] f.method = "int64"        -> read_int64(data, st)
      [] f.method = "float"        -> read_float(data, st)
      [] f.method = "double"       -> read_double(data, st)
      [] f.method = "bool"         -> read_bool(data, st)
      [] f.method = "enum"         -> read_enum(f.arg, data, st)
      [] f.method = "string"       -> read_string(data, st)
      [] f.method = "array"        -> read_array(f.arg, data, st)
      [] f.method = "array_int32"  -> read_array_int32(data, st)
      [] f.method = "array_double" -> read_array_double(data, st)
      [] f.method = "vector2f"     -> read_vector2f(data, st)
      [] f.method = "bad_type"     -> read_bad_type(data, st)

\* What the log keeps of a decoded field: the value, or the number of
\* records for an array of records.
Logged(f, val) == IF f.method = "array" THEN Len(val) ELSE val

\* the log entry of field f of cls, decoded from offset start with result r
LogEntry(cls, f, start, r) ==
    [cls |-> cls, name |-> f.name, method |-> f.method,
     start |-> start, stop |-> r.st.pos, reads |-> Len(r.st.reads),
     ok |-> r.st.err = NoErr,
     val |-> IF r.st.err = NoErr THEN Logged(f, r.val) ELSE 0]

\* self.<name> = <value>: the i-th field of cls is set from r, and the next
\* field's statement follows; an exception ends the construction and no
\* object exists.
FieldRead(cls, i, data, st, vals, r) ==
    IF r.st.err # NoErr
    THEN [st  |-> [r.st EXCEPT !.log =
                      Append(@, LogEntry(cls, Layout(cls)[i], st.pos, r))],
          val |-> [cls |-> cls, fields |-> <<>>]]
    ELSE generate_init(cls, i + 1, data,
            [r.st EXCEPT !.log =
                Append(@, LogEntry(cls, Layout(cls)[i], st.pos, r))],
            Append(vals, r.val))

\* The reader branch of the generated __init__(self, read_fun, tell_fun):
\* the fields from the i-th on are decoded one after the other in layout
\* order.
generate_init(cls, i, data, st, vals) ==
    IF i > Len(Layout(cls))
    THEN [st |-> st, val |-> [cls |-> cls, fields |-> vals]]
    ELSE FieldRead(cls, i, data, st, vals,
                   ReadMethod(Layout(cls)[i], data, st))

\* cls(read_fun, tell_fun)
Construct(cls, data, st) == generate_init(cls, 1, data, st, <<>>)

(***************************************************************************)
(* Input files                                                             *)
(***************************************************************************)

\* number of records in the data_array of a well-formed input file.  Every
\* 4-byte word of the records other than the text of the strings and the
\* 1000000 of RecipeRecBig is a small number (the floats and doubles are
\* denormals), so that few corrupted files hold an array count above MaxCount.
MaxRecords == 1

\* the 4 bytes of a little-endian int32
W(n) == << n % 256, (n \div 256) % 256, (n \div 65536) % 256,
           (n \div 16777216) % 256 >>

RECURSIVE Zeros(_)
Zeros(n) == IF n <= 0 THEN <<>> ELSE <<0>> \o Zeros(n - 1)

\* an encoded string: length, body, padding to a multiple of 4
Str(body) == W(Len(body)) \o body \o Zeros((-Len(body)) % 4)

RECURSIVE Repeat(_, _)
Repeat(s, n) == IF n <= 0 THEN <<>> ELSE s \o Repeat(s, n - 1)

\* an encoded record set holding MaxRecords copies of one record
SetFile(table, rec) ==
    Str(table) \o Str(<<>>) \o W(MaxRecords) \o Repeat(rec, MaxRecords)

\* "hello", "abcd", and U+00E9 as UTF-8
Hello == <<104, 101, 108, 108, 111>>
Abcd == <<97, 98, 99, 100>>
EAcute == <<195, 169>>

StringRec ==
    Str(Hello) \o W(7) \o Str(<<>>) \o Str(EAcute) \o Str(Abcd) \o Str(<<>>)

RecipeRec ==
    Str(Abcd) \o W(5) \o Str(<<>>) \o W(4) \o W(1) \o W(0) \o W(60)
    \o W(2) \o W(3) \o W(4) \o W(2) \o W(1) \o W(1) \o W(1) \o W(6) \o W(1)
    \o W(1) \o W(2) \o Str(<<>>) \o Str(Hello) \o W(0)

\* a recipe whose result_counts is [7, -1, 1000000]
RecipeRecBig ==
    Str(<<>>) \o W(1) \o Str(<<>>) \o W(15) \o W(0) \o W(1) \o W(1)
    \o W(0) \o W(0) \o W(0) \o W(3) \o W(7) \o W(-1) \o W(1000000)
    \o W(0) \o Str(<<>>) \o Str(<<>>) \o W(1)

ItemRec ==
    Str(Abcd) \o W(3) \o Str(<<>>) \o W(2) \o W(0) \o Str(<<>>) \o Str(<<>>)
    \o W(100) \o W(1) \o W(1) \o W(4) \o W(0) \o W(1) \o W(0) \o W(0)
    \o Str(Hello) \o W(0) \o W(0) \o W(0) \o W(0)
    \o W(9) \o W(0) \o W(-1) \o W(-1) \o <<3, 0, 0, 0>> \o W(0) \o W(0)
    \o W(0) \o W(0) \o W(0) \o W(0) \o W(1) \o W(0) \o W(0) \o Str(<<>>)

TechRec ==
    Str(Abcd) \o W(2) \o Str(<<>>) \o Str(<<>>) \o Str(<<>>) \o W(1) \o W(0)
    \o W(0) \o W(0) \o W(0) \o Str(<<>>) \o W(0) \o W(1) \o W(1) \o W(0)
    \o W(0) \o W(0) \o W(0) \o W(0) \o W(0) \o W(8) \o W(0) \o W(1) \o W(5)
    \o W(0) \o W(1) \o <<2, 0, 0, 0, 1, 0, 0, 0>> \o W(0) \o W(0)
    \o <<1, 0, 0, 0>> \o <<2, 0, 0, 0>>

\* the well-formed file of each kind
GoodFile(kind) ==
    CASE kind = "ItemProtoSet"   -> SetFile(<<73>>, ItemRec)
      [] kind = "RecipeProtoSet" -> SetFile(<<82, 80>>, RecipeRec)
      [] kind = "StringProtoSet" -> SetFile(<<83, 84, 82>>, StringRec)
      [] kind = "TechProtoSet"   -> SetFile(Abcd, TechRec)

\* the 16 bytes _Reader.__init__ compares the start of the file with
UnityHeader == <<0, 0, 0, 0, 0, 0, 0, 0, 0, 0, 0, 0, 1, 0, 0, 0>>

\* the wrapper of an exported asset: the header, a second 12-byte PPtr, and
\* the name of the file
Envelope(name) == UnityHeader \o Zeros(12) \o Str(name)

Prefixes(s) == { SubSeq(s, 1, n) : n \in 0..Len(s) }

\* the words a corrupted file gets in place of one of its own:
\* -1, -2, 1, 5, 9 and a word that is no UTF-8
MutWords == { W(-1), W(-2), W(1), W(5), W(9), <<128, 0, 0, 0>> }

\* s with the 4 bytes at word index i (from 0) replaced by w
Subst(s, i, w) ==
    SubSeq(s, 1, 4 * i) \o w \o SubSeq(s, 4 * i + 5, Len(s))

Mutations(s) ==
    { Subst(s, i, w) : i \in 0..((Len(s) \div 4) - 1), w \in MutWords }

\* files that start like the header without being wrapped
NearHeaders ==
    { SubSeq(UnityHeader, 1, 15),
      SubSeq(UnityHeader, 1, 12) \o <<2, 0, 0, 0>> \o Zeros(20),
      <<1>> \o SubSeq(UnityHeader, 2, 16) \o Zeros(16) }

\* the contents a file of the kind is given
Files(kind) ==
    LET good == GoodFile(kind)
        env  == Envelope(EAcute \o Hello) \o good
    IN Prefixes(good) \cup Mutations(good)
       \cup { SubSeq(env, 1, n) : n \in 0..48 } \cup { env }
       \cup { Subst(env, i, w) : i \in 0..9, w \in MutWords }
       \cup { Envelope(<<>>) \o good, Envelope(Abcd) \o good }
       \cup NearHeaders
       \cup (IF kind = "RecipeProtoSet"
             THEN Prefixes(SetFile(<<>>, RecipeRecBig)) ELSE {})

(***************************************************************************)
(* load_data and load_all                                                  *)
(***************************************************************************)

\* the table with the class of one line pasted into the next
_ALL_DATA_TYPES_pasted ==
    << <<"ItemProtoSet", "ItemProtoSet">>,
       <<"RecipeProtoSet", "RecipeProtoSet">>,
       <<"StringProtoSet", "StringProtoSet">>,
       <<"TechProtoSet", "StringProtoSet">> >>

_ALL_DATA_TYPES ==
    << <<"ItemProtoSet", "ItemProtoSet">>,
       <<"RecipeProtoSet", "RecipeProtoSet">>,
       <<"StringProtoSet", "StringProtoSet">>,
       <<"TechProtoSet", "TechProtoSet">> >>

_VALID_TYPES == [i \in 1..Len(_ALL_DATA_TYPES) |-> _ALL_DATA_TYPES[i][1]]

Kinds == { _VALID_TYPES[i] : i \in 1..Len(_VALID_TYPES) }

\* _VALID_TYPES.index(data_type)
IndexOf(data_type) ==
    CHOOSE i \in 1..Len(_VALID_TYPES) : _VALID_TYPES[i] = data_type

\* a data_type load_data is not given by load_all
OtherTypes == { "BackerProtoSet" }

None == "None"

NoOutcome == [kind |-> "none", err |-> NoErr, val |-> <<>>]
NoCall == [fn |-> "none"]
NoFound == [fn |-> "none", cls |-> None, root |-> [type |-> "none"],
            kind |-> "none", err |-> NoErr, val |-> <<>>]
NoCur == [data_type |-> None, filename |-> None, cls |-> None,
          val |-> <<>>]

\* start[:16] == b'\0\0\0\0\0\0\0\0\0\0\0\0\x01\0\0\0'
HasHeader(data) == SubSeq(data, 1, Min(16, Len(data))) = UnityHeader

\* _Reader.__init__ after the file is open: skip the wrapper if the file
\* starts with the header
SkipHeader(data) ==
    IF HasHeader(data)
    THEN _read_base_string(data, Read(data, NewReader, 28).st).st
    ELSE NewReader

\* load_all catching the exception of a load and returning what it has
RaiseCaught(err) ==
    /\ outcome' = IF call.fn = "load_all"
                  THEN [kind |-> "return", err |-> NoErr,
                        val |-> [type |-> "GameData", items |-> loaded]]
                  ELSE [kind |-> "raise", err |-> err, val |-> <<>>]
    /\ pc' = "done"

\* the call raises err: load_data and load_all catch nothing
Raise(err) ==
    /\ outcome' = [kind |-> "raise", err |-> err, val |-> <<>>]
    /\ pc' = "done"

\* load_data(data_type, filename) is called, without a filename or with the
\* name of a file of the directory other than the default one
CallLoadData(data_type, filename) ==
    /\ pc = "idle"
    /\ filename # None => (filename # data_type /\ fs[filename] # Missing)
    /\ call' = [fn |-> "load_data", data_type |-> data_type,
                filename |-> filename]
    /\ cur' = [NoCur EXCEPT !.data_type = data_type, !.filename = filename]
    /\ pc' = "load_data"
    /\ UNCHANGED <<fs, kindIdx, handles, rd, loaded, outcome, heap, visited, found>>

\* load_all(root_dir) is called
CallLoadAll ==
    /\ pc = "idle"
    /\ call' = [fn |-> "load_all"]
    /\ kindIdx' = 1
    /\ pc' = "load_all"
    /\ UNCHANGED <<fs, cur, handles, rd, loaded, outcome, heap, visited, found>>

\* load_all: the generator feeding dict(...) calls load_data for the next
\* kind of _VALID_TYPES, or is exhausted and GameData(**result) is returned
load_all ==
    /\ pc = "load_all"
    /\ IF kindIdx <= Len(_VALID_TYPES)
       THEN /\ cur' = [NoCur EXCEPT !.data_type = _VALID_TYPES[kindIdx],
                                    !.filename = _VALID_TYPES[kindIdx]]
            /\ pc' = "load_data"
            /\ UNCHANGED outcome
       ELSE /\ outcome' = [kind |-> "return", err |-> NoErr,
                           val |-> [type |-> "GameData", items |-> loaded]]
            /\ pc' = "done"
            /\ UNCHANGED cur
    /\ UNCHANGED <<fs, call, kindIdx, handles, rd, loaded, heap, visited, found>>

\* a load_data that opens the file named before it checks the type
load_data_late_check ==
    /\ pc = "load_data"
    /\ IF cur.data_type \notin Kinds
       THEN /\ Raise("ValueError")
            /\ handles' = IF cur.filename # None
                          THEN Append(handles, [file |-> cur.filename,
                                                open |-> FALSE])
                          ELSE handles
            /\ UNCHANGED cur
       ELSE /\ cur' = [cur EXCEPT
                 !.filename = IF cur.filename = None THEN cur.data_type
                              ELSE cur.filename,
                 !.cls = _ALL_DATA_TYPES[IndexOf(cur.data_type)][2]]
            /\ pc' = "reader"
            /\ UNCHANGED <<outcome, handles>>
    /\ UNCHANGED <<fs, call, kindIdx, rd, loaded, heap, visited, found>>

\* load_data up to the with statement: the type is checked, the file name
\* defaulted and the class looked up
load_data ==
    /\ pc = "load_data"
    /\ IF cur.data_type \notin Kinds
       THEN /\ Raise("ValueError")
            /\ UNCHANGED cur
       ELSE /\ cur' = [cur EXCEPT
                 !.filename = IF cur.filename = None THEN cur.data_type
                              ELSE cur.filename,
                 !.cls = _ALL_DATA_TYPES[IndexOf(cur.data_type)][2]]
            /\ pc' = "reader"
            /\ UNCHANGED outcome
    /\ UNCHANGED <<fs, call, kindIdx, handles, rd, loaded, heap, visited, found>>

\* _Reader(filename): io.FileIO opens the file (FileNotFoundError if there
\* is none), then the wrapper is skipped; an exception there leaves
\* __init__ before closing(...) has the reader, with the file open.
_Reader ==
    /\ pc = "reader"
    /\ IF fs[cur.filename] = Missing
       THEN /\ Raise("FileNotFoundError")
            /\ UNCHANGED <<handles, rd>>
       ELSE /\ handles' = Append(handles, [file |-> cur.filename,
                                           open |-> TRUE])
            /\ rd' = SkipHeader(fs[cur.filename])
            /\ IF rd'.err # NoErr
               THEN Raise(rd'.err)
               ELSE pc' = "construct" /\ UNCHANGED outcome
    /\ UNCHANGED <<fs, call, kindIdx, cur, loaded, heap, visited, found>>

\* cls(*reader.get_funcs()) inside the with block
Constructed(r) ==
    /\ r.st.err # CountBound
    /\ rd' = r.st
    /\ cur' = [cur EXCEPT !.val = IF r.st.err = NoErr THEN r.val ELSE <<>>]

ConstructRecordSet ==
    /\ pc = "construct"
    /\ Constructed(Construct(cur.cls, fs[cur.filename], rd))
    /\ pc' = "close"
    /\ UNCHANGED <<fs, call, kindIdx, handles, loaded, outcome, heap, visited, found>>

\* closing.__exit__: reader.close(), then load_data returns the record set
\* or the exception goes on; load_all stores the record set under its kind
close ==
    /\ pc = "close"
    /\ handles' = [handles EXCEPT ![Len(handles)].open = FALSE]
    /\ IF rd.err # NoErr
       THEN /\ Raise(rd.err)
            /\ UNCHANGED <<loaded, kindIdx>>
       ELSE IF call.fn = "load_all"
       THEN /\ loaded' = Append(loaded, <<cur.data_type, cur.val>>)
            /\ kindIdx' = kindIdx + 1
            /\ pc' = "load_all"
            /\ UNCHANGED outcome
       ELSE /\ outcome' = [kind |-> "return", err |-> NoErr, val |-> cur.val]
            /\ pc' = "done"
            /\ UNCHANGED <<loaded, kindIdx>>
    /\ UNCHANGED <<fs, call, cur, rd, heap, visited, found>>

(***************************************************************************)
(* do_all and find_all                                                     *)
(*                                                                         *)
(* The records of a traversal live in a heap: object id -> [cls, fields],  *)
(* fields in layout order.  An element of an array of records is an object *)
(* id, or 0 for None.                                                      *)
(***************************************************************************)

NoVisit == [visited |-> <<>>, err |-> NoErr]

RECURSIVE do_all_method(_, _, _)
RECURSIVE FieldsDoAll(_, _, _, _)
RECURSIVE ArrayDoAll(_, _, _, _)

\* for tmp in arr: if tmp: tmp.do_all(fun)      (from the j-th element on)
ArrayDoAll(h, arr, j, acc) ==
    IF j > Len(arr) \/ acc.err # NoErr THEN acc
    ELSE IF arr[j] # 0
         THEN ArrayDoAll(h, arr, j + 1, do_all_method(h, arr[j], acc))
    ELSE ArrayDoAll(h, arr, j + 1, acc)

\* statements that descend an array of int32 as they do an array of records
FieldsDoAllInt32(h, o, i, acc) ==
    IF i > Len(Layout(h[o].cls)) \/ acc.err # NoErr THEN acc
    ELSE IF Layout(h[o].cls)[i].method \in {"array", "array_int32"}
         THEN FieldsDoAll(h, o, i + 1,
                 ArrayDoAll(h, h[o].fields[i], 1, acc))
    ELSE FieldsDoAll(h, o, i + 1, acc)

\* the statements generate_do_all emits for the fields from the i-th on
FieldsDoAll(h, o, i, acc) ==
    IF i > Len(Layout(h[o].cls)) \/ acc.err # NoErr THEN acc
    ELSE LET f == Layout(h[o].cls)[i]
             v == h[o].fields[i]
         IN IF f.method = "object"
            THEN FieldsDoAll(h, o, i + 1,
                    IF v # 0 THEN do_all_method(h, v, acc) ELSE acc)
            ELSE IF f.method = "array"
            THEN FieldsDoAll(h, o, i + 1,
                    IF Len(v) > 0 THEN ArrayDoAll(h, v, 1, acc) ELSE acc)
            ELSE FieldsDoAll(h, o, i + 1, acc)

\* a do_all(self, fun) calling fun(self, cls_name) after the fields
do_all_postorder(h, o, acc) ==
    IF acc.err # NoErr THEN acc
    ELSE LET r == FieldsDoAll(h, o, 1, acc)
         IN IF r.err # NoErr THEN r
            ELSE [r EXCEPT !.visited = Append(@, <<o, h[o].cls>>)]

\* the generated do_all(self, fun): fun(self, cls_name), then the fields
do_all_method(h, o, acc) ==
    IF acc.err # NoErr THEN acc
    ELSE FieldsDoAll(h, o, 1,
            [acc EXCEPT !.visited = Append(@, <<o, h[o].cls>>)])

RECURSIVE IterDoAll(_, _, _, _)
\* for val in obj: val.do_all(fun); None has no do_all
IterDoAll(h, items, j, acc) ==
    IF j > Len(items) \/ acc.err # NoErr THEN acc
    ELSE IF items[j] = 0 THEN [acc EXCEPT !.err = "AttributeError"]
    ELSE IterDoAll(h, items, j + 1, do_all_method(h, items[j], acc))

RECURSIVE GameDataDoAll(_, _, _)
\* for k, val in obj._asdict().items(): skip 'backers'; for i in val: ...
\* Every val of a GameData built by load_all is a record set, an Object,
\* which is not iterable: the for statement raises TypeError.
GameDataDoAll(items, j, acc) ==
    IF j > Len(items) \/ acc.err # NoErr THEN acc
    ELSE IF items[j][1] = "backers" THEN GameDataDoAll(items, j + 1, acc)
    ELSE [acc EXCEPT !.err = "TypeError"]

\* the module's do_all(obj, fun)
do_all(h, obj) ==
    CASE obj.type = "Object"   -> do_all_method(h, obj.id, NoVisit)
      [] obj.type = "GameData" -> GameDataDoAll(obj.items, 1, NoVisit)
      [] OTHER                 -> IterDoAll(h, obj.items, 1, NoVisit)

RECURSIVE CollectOnce(_, _, _)
\* a find_fun that appends an instance only the first time it is visited
CollectOnce(vis, cls, j) ==
    IF j > Len(vis) THEN <<>>
    ELSE (IF vis[j][2] = cls /\ \A m \in 1..(j - 1) : vis[m] # vis[j]
          THEN <<vis[j][1]>> ELSE <<>>)
         \o CollectOnce(vis, cls, j + 1)

RECURSIVE Collect(_, _, _)
\* what find_fun has appended to acc after the visits from the j-th on
Collect(vis, cls, j) ==
    IF j > Len(vis) THEN <<>>
    ELSE (IF vis[j][2] = cls THEN <<vis[j][1]>> ELSE <<>>)
         \o Collect(vis, cls, j + 1)

\* find_all(obj, cls): acc filled by do_all, returned unless do_all raised
Found(r, cls) ==
    [visited |-> r.visited, err |-> r.err,
     val |-> IF r.err = NoErr THEN Collect(r.visited, cls, 1) ELSE <<>>]

find_all(h, obj, cls) == Found(do_all(h, obj), cls)

\* do_all(obj, fun) is called with a visitor that records its arguments
Traversed(fn, cls, obj, r, val) ==
    /\ visited' = r.visited
    /\ found' = [fn |-> fn, cls |-> cls, root |-> obj,
                 kind |-> IF r.err = NoErr THEN "return" ELSE "raise",
                 err |-> r.err, val |-> val]

CallDoAll(obj) ==
    /\ found.fn = "none"
    /\ Traversed("do_all", None, obj, do_all(heap, obj), <<>>)
    /\ UNCHANGED <<fs, pc, call, kindIdx, cur, handles, rd, loaded, outcome,
                   heap>>

\* find_all(obj, cls) is called
FindAllDone(cls, obj, r) == Traversed("find_all", cls, obj, r, r.val)

CallFindAll(obj, cls) ==
    /\ found.fn = "none"
    /\ FindAllDone(cls, obj, find_all(heap, obj, cls))
    /\ UNCHANGED <<fs, pc, call, kindIdx, cur, handles, rd, loaded, outcome,
                   heap>>

\* the GameData load_all returned is traversed
DoAllBundle ==
    /\ pc = "done" /\ call.fn = "load_all" /\ outcome.kind = "return"
    /\ CallDoAll(outcome.val)

\* the GameData load_all returned is searched
FindAllBundle(cls) ==
    /\ pc = "done" /\ call.fn = "load_all" /\ outcome.kind = "return"
    /\ CallFindAll(outcome.val, cls)

(***************************************************************************)
(* The loader's specification                                              *)
(***************************************************************************)

\* directories holding one file, of any content the kind is given
FocusDirs ==
    UNION { { [k \in Kinds |-> IF k = f THEN c ELSE Missing] : c \in Files(f) }
            : f \in Kinds }

\* what a file is in a directory holding all the kinds: absent, well-formed,
\* cut two bytes short, or with a string length of -2
SmallFiles(kind) ==
    LET good == GoodFile(kind)
    IN { Missing, good, SubSeq(good, 1, Len(good) - 2),
         Subst(good, 0, W(-2)) }

FullDirs ==
    { d \in [Kinds -> UNION { SmallFiles(k) : k \in Kinds }] :
        \A k \in Kinds : d[k] \in SmallFiles(k) }

Init ==
    /\ fs \in FocusDirs \cup FullDirs
    /\ pc = "idle"
    /\ call = NoCall
    /\ kindIdx = 0
    /\ cur = NoCur
    /\ handles = <<>>
    /\ rd = NewReader
    /\ loaded = <<>>
    /\ outcome = NoOutcome
    /\ heap = <<>>
    /\ visited = <<>>
    /\ found = NoFound

Next ==
    \/ \E data_type \in Kinds \cup OtherTypes, filename \in Kinds \cup {None} :
          CallLoadData(data_type, filename)
    \/ CallLoadAll
    \/ load_all
    \/ load_data
    \/ _Reader
    \/ ConstructRecordSet
    \/ close
    \/ DoAllBundle
    \/ \E cls \in {"ItemProtoSet", "ItemProto", "StringProto"} :
          FindAllBundle(cls)

Spec == Init /\ [][Next]_vars

(***************************************************************************)
(* Properties of the loader                                                *)
(***************************************************************************)

\* the file of the load in progress (or of the last load made)
CurData == fs[cur.filename]

\* a load has opened its file
Reading == cur.cls # None /\ CurData # Missing

\* some read_fun(n) of the load returned fewer than the n bytes asked for:
\* the file ended before the bytes of the schema did
ShortRead == \E i \in 1..Len(rd.reads) : rd.reads[i].got < rd.reads[i].want

\* the int32 the file holds at offset at (from the bytes that exist)
Int32At(data, at) ==
    IntFromBytes(SubSeq(data, at + 1, Min(at + 4, Len(data))))

\* C1: a load_data whose file ends before the schema's bytes have all been
\* supplied raises and returns no record.
C1_TruncatedInputRaises ==
    (pc = "done" /\ call.fn = "load_data" /\ Reading /\ ShortRead)
        => outcome.kind = "raise"

\* C2: when load_data or load_all has returned or raised, every file handle
\* it opened has been closed.
C2_HandlesClosed ==
    pc = "done" => \A i \in 1..Len(handles) : ~handles[i].open

\* the visits the traversal of a GameData is to make: for each kind in
\* declaration order its record set, then its records in array order
RECURSIVE BundleVisits(_, _)
BundleVisits(items, j) ==
    IF j > Len(items) THEN <<>>
    ELSE LET set == items[j][2]
             recs == set.fields[3]
         IN << <<set, set.cls>> >>
            \o [i \in 1..Len(recs) |-> <<recs[i], recs[i].cls>>]
            \o BundleVisits(items, j + 1)

\* C3: do_all and find_all on the GameData load_all returned complete
\* without error; the visitor sees each kind's record set and then its
\* records, kinds in declaration order, and find_all returns the visited
\* nodes of the type asked for, in that order.
C3_BundleTraversal ==
    (call.fn = "load_all" /\ found.fn # "none")
        => /\ found.kind = "return"
           /\ visited = BundleVisits(outcome.val.items, 1)
           /\ found.fn = "find_all"
                 => found.val = Collect(visited, found.cls, 1)

\* C8: when the constructor of the reader is done, the offset is
\* 28 + 4 + len(name) + ((-len(name)) mod 4) if the file starts with the
\* 16 header bytes, len(name) being the length prefix at offset 28; for
\* every other file it is 0 and nothing has been read.
C8_EnvelopeSkip ==
    (pc = "construct" /\ Reading)
        => IF HasHeader(CurData)
           THEN rd.pos = 28 + 4 + Int32At(CurData, 28)
                            + ((-Int32At(CurData, 28)) % 4)
           ELSE rd.pos = 0 /\ rd.reads = <<>>

\* the bytes of data that follow the length prefix at offset at
BodyAt(data, at) ==
    SubSeq(data, at + 5, at + 4 + Int32At(data, at))

\* C9: a decoded string field whose length prefix is L has consumed
\* 4 + L + ((-L) mod 4) bytes and holds the L bytes after the prefix,
\* decoded as UTF-8, whatever L is.
C9_StringConsumes ==
    Reading =>
        \A i \in 1..Len(rd.log) :
            (rd.log[i].method = "string" /\ rd.log[i].ok)
                => /\ rd.log[i].stop - rd.log[i].start
                        = 4 + Int32At(CurData, rd.log[i].start)
                            + ((-Int32At(CurData, rd.log[i].start)) % 4)
                   /\ rd.log[i].val
                        = Utf8Decode(BodyAt(CurData, rd.log[i].start)).cps

\* C10: a decoded array_int32 field whose count is C has consumed 4 + 4*C
\* bytes and holds C elements, the i-th being the little-endian int32 of the
\* 4 bytes at offset 4*i after the start of the field; an array of records
\* holds C records.
C10_ArrayConsumes ==
    Reading =>
        \A i \in 1..Len(rd.log) :
            /\ (rd.log[i].method = "array_int32" /\ rd.log[i].ok)
                  => /\ rd.log[i].stop - rd.log[i].start
                          = 4 + 4 * Int32At(CurData, rd.log[i].start)
                     /\ Len(rd.log[i].val)
                          = Int32At(CurData, rd.log[i].start)
                     /\ \A j \in 1..Len(rd.log[i].val) :
                          /\ rd.log[i].start + 4 * j + 4 <= Len(CurData)
                          /\ rd.log[i].val[j]
                               = Int32At(CurData, rd.log[i].start + 4 * j)
            /\ (rd.log[i].method = "array" /\ rd.log[i].ok)
                  => rd.log[i].val = Int32At(CurData, rd.log[i].start)

\* load_data(kind) of the directory's file raises: there is no file, the
\* wrapper cannot be skipped or the record set cannot be constructed
LoadFails(kind) ==
    \/ fs[kind] = Missing
    \/ SkipHeader(fs[kind]).err # NoErr
    \/ Construct(kind, fs[kind], SkipHeader(fs[kind])).st.err # NoErr

\* the record set load_data(kind) returns
LoadValue(kind) == Construct(kind, fs[kind], SkipHeader(fs[kind])).val

\* C7: load_all raises, and returns nothing, exactly when the load of some
\* kind fails, at whatever position; the GameData it returns holds every
\* kind, in declaration order, with the record set load_data returns for it.
C7_LoadAllAllOrNothing ==
    (pc = "done" /\ call.fn = "load_all")
        => /\ outcome.kind = "raise" <=> \E k \in Kinds : LoadFails(k)
           /\ outcome.kind = "raise" => outcome.val = <<>>
           /\ outcome.kind = "return"
                 => /\ Len(outcome.val.items) = Len(_VALID_TYPES)
                    /\ \A i \in 1..Len(_VALID_TYPES) :
                          /\ outcome.val.items[i][1] = _VALID_TYPES[i]
                          /\ outcome.val.items[i][2]
                                = LoadValue(_VALID_TYPES[i])

\* load_all has raised on a decode error of the third or fourth kind, two
\* record sets being loaded already
C7_Witness ==
    /\ pc = "done" /\ call.fn = "load_all"
    /\ outcome.kind = "raise" /\ outcome.err = "ValueError"
    /\ Len(loaded) >= 2

(***************************************************************************)
(* Traversals of records built by hand                                     *)
(*                                                                         *)
(* The heap holds a Tree (1), two Branches (2, 3) and two Leaves (4, 5);   *)
(* the arrays of records of the Tree and of the Branches vary, and may     *)
(* hold the same record more than once, or None.                           *)
(***************************************************************************)

MaxArr == 2

SeqsUpTo(S, n) == UNION { [1..m -> S] : m \in 0..n }

LeafArrays == { <<>>, <<4>>, <<4, 5>>, <<0, 5>>, <<5, 4, 4>> }

RightArrays == { <<>>, <<3>>, <<3, 2>> }

\* Tree(name=..., left=..., tags=[2, 4], id=7, right=...) and the like: the
\* int32 arrays hold numbers that are also object ids
HeapOf(left, right, leaves2, leaves3) ==
    << [cls |-> "Tree", fields |-> <<Abcd, left, <<2, 4>>, 7, right>>],
       [cls |-> "Branch", fields |-> <<2, <<3>>, leaves2, Hello>>],
       [cls |-> "Branch", fields |-> <<3, <<>>, leaves3, <<>>>>],
       [cls |-> "Leaf", fields |-> <<4, <<5>>>>],
       [cls |-> "Leaf", fields |-> <<5, <<>>>>] >>

Heaps ==
    { HeapOf(left, right, leaves2, leaves3) :
        left \in SeqsUpTo({0, 2, 3}, MaxArr),
        right \in RightArrays,
        leaves2 \in LeafArrays,
        leaves3 \in { <<>>, <<5>> } }

\* what do_all and find_all are called on: a record, or a list of records
Roots ==
    { [type |-> "Object", id |-> o] : o \in {1, 2, 4} }
    \cup { [type |-> "list", items |-> s] :
             s \in { <<>>, <<2, 1>>, <<1, 1>>, <<3, 0>> } }

InitTraverse ==
    /\ heap \in Heaps
    /\ fs = [k \in Kinds |-> Missing]
    /\ pc = "idle"
    /\ call = NoCall
    /\ kindIdx = 0
    /\ cur = NoCur
    /\ handles = <<>>
    /\ rd = NewReader
    /\ loaded = <<>>
    /\ outcome = NoOutcome
    /\ visited = <<>>
    /\ found = NoFound

NextTraverse ==
    \/ \E obj \in Roots : CallDoAll(obj)
    \/ \E obj \in Roots, cls \in {"Tree", "Branch", "Leaf"} :
          CallFindAll(obj, cls)

SpecTraverse == InitTraverse /\ [][NextTraverse]_vars

\* the records the root is or holds
RootItems(obj) == IF obj.type = "Object" THEN <<obj.id>> ELSE obj.items

\* the steps from record o to a record it holds: <<i, j>> for the j-th
\* element of its i-th field, an array of records, when that is not None
Steps(h, o) ==
    UNION { { <<i, j>> : j \in { j \in 1..Len(h[o].fields[i]) :
                                    h[o].fields[i][j] # 0 } }
            : i \in { i \in 1..Len(Layout(h[o].cls)) :
                         Layout(h[o].cls)[i].method = "array" } }

RECURSIVE PathsFrom(_, _)
\* the paths from record o to the records under it, o included: the steps
\* taken, one after the other
PathsFrom(h, o) ==
    { <<>> } \cup
    UNION { { s \o p : p \in PathsFrom(h, h[o].fields[s[1]][s[2]]) }
            : s \in Steps(h, o) }

\* the paths from the root: the position among the root's items first
RootPaths(h, obj) ==
    UNION { { <<j>> \o p : p \in PathsFrom(h, RootItems(obj)[j]) }
            : j \in 1..Len(RootItems(obj)) }

RECURSIVE NodeAt(_, _, _)
NodeAt(h, o, p) ==
    IF p = <<>> THEN o
    ELSE NodeAt(h, h[o].fields[p[1]][p[2]], SubSeq(p, 3, Len(p)))

\* the record path p of the root leads to
NodeOf(h, obj, p) == NodeAt(h, RootItems(obj)[p[1]], Tail(p))

\* p comes before q in pre-order: p is a proper prefix of q (an ancestor),
\* or at the first step where they part p takes the earlier field, or the
\* earlier element of the same field
Precedes(p, q) ==
    \E k \in 1..Len(q) :
        /\ \A m \in 1..(k - 1) : m <= Len(p) /\ p[m] = q[m]
        /\ k > Len(p) \/ p[k] < q[k]

PathRanked(S, i) ==
    CHOOSE p \in S : Cardinality({ q \in S : Precedes(q, p) }) = i - 1

\* the visits of a pre-order depth-first traversal of the root
PreOrder(h, obj) ==
    LET S == RootPaths(h, obj)
    IN [i \in 1..Cardinality(S) |->
           LET o == NodeOf(h, obj, PathRanked(S, i))
           IN <<o, h[o].cls>>]

\* how many times x is in sequence s
Count(s, x) == Cardinality({ i \in 1..Len(s) : s[i] = x })

\* a traversal of a record or of a list of records has completed
TraversalDone == found.fn # "none" /\ found.kind = "return"

OfFoundClass(v) == v[2] = found.cls

\* C4: find_all(root, T) on a record or a list of records returns the
\* visited nodes of declared type T, in the order visited; the root is in it
\* when its type is T, and a record is in it once per path leading to it.
C4_FindAllFilter ==
    (TraversalDone /\ found.fn = "find_all")
        => /\ found.val = [i \in 1..Len(SelectSeq(visited, OfFoundClass)) |->
                              SelectSeq(visited, OfFoundClass)[i][1]]
           /\ (found.root.type = "Object"
                 /\ heap[found.root.id].cls = found.cls)
                 => (Len(found.val) > 0 /\ found.val[1] = found.root.id)
           /\ \A o \in DOMAIN heap :
                 heap[o].cls = found.cls
                    => Count(found.val, o)
                         = Cardinality({ p \in RootPaths(heap, found.root) :
                                           NodeOf(heap, found.root, p) = o })

\* find_all([tree, tree], Tree) has returned the tree twice
C4_Witness ==
    /\ TraversalDone /\ found.fn = "find_all" /\ found.cls = "Tree"
    /\ found.root = [type |-> "list", items |-> <<1, 1>>]
    /\ found.val = <<1, 1>>
    /\ Len(visited) > 2

\* C5: the visitor is called in pre-order, depth first: on a record before
\* the records under it, on these by field in declaration order and by
\* element within an array, the whole subtree of an element before the next.
C5_PreOrder ==
    TraversalDone => visited = PreOrder(heap, found.root)

\* the tree with left = [2, 3], right = [3], leaves [4, 5] under 2 and [5]
\* under 3 has been traversed
C5_Witness ==
    /\ TraversalDone
    /\ found.root = [type |-> "Object", id |-> 1]
    /\ visited = << <<1, "Tree">>, <<2, "Branch">>, <<4, "Leaf">>,
                    <<5, "Leaf">>, <<3, "Branch">>, <<5, "Leaf">>,
                    <<3, "Branch">>, <<5, "Leaf">> >>

\* C6: the visitor is called on records only, with the record's class as
\* second argument, and once for each path from the root to a record: not
\* for None, for an empty array, for an element of an array of int32 or for
\* another primitive field.
C6_VisitsRecordsOnly ==
    TraversalDone
        => /\ \A i \in 1..Len(visited) :
                 /\ visited[i][1] \in DOMAIN heap
                 /\ visited[i][2] = heap[visited[i][1]].cls
           /\ Len(visited) = Cardinality(RootPaths(heap, found.root))
           /\ \A o \in DOMAIN heap :
                 Count([i \in 1..Len(visited) |-> visited[i][1]], o)
                    = Cardinality({ p \in RootPaths(heap, found.root) :
                                      NodeOf(heap, found.root, p) = o })

\* a tree holding None, an empty array of records and non-empty arrays of
\* int32 has been traversed, one of its leaves being visited twice
C6_Witness ==
    /\ TraversalDone
    /\ found.root = [type |-> "Object", id |-> 1]
    /\ \E j \in 1..Len(heap[1].fields[2]) : heap[1].fields[2][j] = 0
    /\ heap[1].fields[5] = <<>>
    /\ Count(visited, <<4, "Leaf">>) = 2

(***************************************************************************)
(* Records built without a reader, and their renderings                    *)
(*                                                                         *)
(* A Python value is kept with its type: [t |-> type, v |-> value].  A     *)
(* record is [cls, fields], the values of the fields in layout order.      *)
(***************************************************************************)

PyInt(n) == [t |-> "int", v |-> n]
PyInt64(b) == [t |-> "int64", v |-> b]
PyFloat(b) == [t |-> "float", v |-> b]
PyBool(b) == [t |-> "bool", v |-> b]
PyEnum(n) == [t |-> "enum", v |-> n]
PyStr(cps) == [t |-> "str", v |-> cps]
PyList(s) == [t |-> "list", v |-> s]
PyTuple(s) == [t |-> "tuple", v |-> s]
PyObject(o) == [t |-> "object", v |-> o]

RECURSIVE PyRecord(_)
\* the Python value the decoder's value v of a field read with method is
PyValue(f, v) ==
    CASE f.method = "int32"        -> PyInt(v)
      [] f.method = "int64"        -> PyInt64(v.i64)
      [] f.method = "float"        -> PyFloat(v.f32)
      [] f.method = "double"       -> PyFloat(v.f64)
      [] f.method = "bool"         -> PyBool(v)
      [] f.method = "enum"         -> PyEnum(v)
      [] f.method = "string"       -> PyStr(v)
      [] f.method = "array_int32"  ->
            PyList([i \in 1..Len(v) |-> PyInt(v[i])])
      [] f.method = "array_double" ->
            PyList([i \in 1..Len(v) |-> PyFloat(v[i].f64)])
      [] f.method = "array"        ->
            PyList([i \in 1..Len(v) |-> PyObject(PyRecord(v[i]))])
      [] f.method = "vector2f"     ->
            PyTuple(<<PyFloat(v[1].f32), PyFloat(v[2].f32)>>)

\* the record a construction from a reader has made, as Python values
PyRecord(o) ==
    [cls |-> o.cls,
     fields |-> [i \in 1..Len(o.fields) |->
                    PyValue(Layout(o.cls)[i], o.fields[i])]]

\* cls.__slots__ = tuple(x[0] for x in layout)
__slots__(cls) == [i \in 1..Len(Layout(cls)) |-> Layout(cls)[i].name]

\* a generate_init writing 0 for every field
DefaultAllZero(f) == PyInt(0)

\* the value generate_init writes for a field when there is no reader:
\* '' for string, [] for array..., False for bool, 0 for every other type
DefaultValue(f) ==
    CASE f.method = "string" -> PyStr(<<>>)
      [] f.method \in {"array", "array_int32", "array_double"} -> PyList(<<>>)
      [] f.method = "bool" -> PyBool(FALSE)
      [] OTHER -> PyInt(0)

\* the index of the field called name, 0 if cls has none
FieldIndex(cls, name) ==
    IF \E i \in 1..Len(Layout(cls)) : Layout(cls)[i].name = name
    THEN CHOOSE i \in 1..Len(Layout(cls)) : Layout(cls)[i].name = name
    ELSE 0

RECURSIVE SetAttrs(_, _, _, _)
\* for k, v in kwargs.items(): setattr(self, k, v)   (from the j-th on); a
\* name that is no field becomes an attribute no rendering reads
SetAttrs(cls, fields, kwargs, j) ==
    IF j > Len(kwargs) THEN fields
    ELSE IF FieldIndex(cls, kwargs[j][1]) = 0
         THEN SetAttrs(cls, fields, kwargs, j + 1)
    ELSE SetAttrs(cls,
            [fields EXCEPT ![FieldIndex(cls, kwargs[j][1])] = kwargs[j][2]],
            kwargs, j + 1)

\* the branch read_fun is None of the generated __init__
generate_init_default(cls, kwargs) ==
    [cls |-> cls,
     fields |-> SetAttrs(cls,
                    [i \in 1..Len(Layout(cls)) |-> DefaultValue(Layout(cls)[i])],
                    kwargs, 1)]

\* the sort key of the i-th field: front_attrs.index(name) - 100 for id,
\* name and description, else its position from 0
StrKey(cls, i) ==
    CASE Layout(cls)[i].name = "id"          -> -100
      [] Layout(cls)[i].name = "name"        -> -99
      [] Layout(cls)[i].name = "description" -> -98
      [] OTHER                               -> i - 1

\* str_attrs.sort(): the index of the field whose key is the k-th smallest
StrRanked(keys, k) ==
    CHOOSE i \in 1..Len(keys) :
        Cardinality({ j \in 1..Len(keys) : keys[j] < keys[i] }) = k - 1

\* '={!s}' for object and enum fields, '={!r}' for the others
StrConv(f) == IF f.method \in {"object", "enum"} THEN "s" ELSE "r"

StrAttr(cls, i) ==
    [name |-> Layout(cls)[i].name, idx |-> i, conv |-> StrConv(Layout(cls)[i])]

SortedAttrs(cls, keys) ==
    [k \in 1..Len(keys) |-> StrAttr(cls, StrRanked(keys, k))]

\* cls._str_attrs: the fields sorted by key, each with its format
_str_attrs(cls) ==
    SortedAttrs(cls, [i \in 1..Len(Layout(cls)) |-> StrKey(cls, i)])

\* the float whose bytes are b is 0.0 or -0.0
FloatIsZero(b) ==
    /\ \A i \in 1..(Len(b) - 1) : b[i] = 0
    /\ b[Len(b)] \in {0, 128}

\* bool(value): what 'if not value' of __str__ tests
Truthy(pv) ==
    CASE pv.t \in {"int", "enum"}         -> pv.v # 0
      [] pv.t = "int64"                   -> \E i \in 1..Len(pv.v) : pv.v[i] # 0
      [] pv.t = "float"                   -> ~FloatIsZero(pv.v)
      [] pv.t = "bool"                    -> pv.v
      [] pv.t \in {"str", "list", "tuple"} -> Len(pv.v) > 0
      [] pv.t = "object"                  -> TRUE

RECURSIVE __str__(_)
\* str(x) of an element of a list: a record is rendered in its turn
StrElem(pv) == IF pv.t = "object" THEN __str__(pv.v) ELSE pv

\* what __str__ appends to acc for attribute a holding pv
StrEntry(a, pv) ==
    IF pv.t = "list"
    THEN [name |-> a.name, conv |-> "list",
          val |-> [i \in 1..Len(pv.v) |-> StrElem(pv.v[i])]]
    ELSE [name |-> a.name, conv |-> a.conv, val |-> pv]

\* for attr, fmt in self._str_attrs (from the k-th on): the attributes whose
\* value is false are left out
RECURSIVE StrFrom(_, _, _)
StrFrom(o, attrs, k) ==
    IF k > Len(attrs) THEN <<>>
    ELSE (IF Truthy(o.fields[attrs[k].idx])
          THEN << StrEntry(attrs[k], o.fields[attrs[k].idx]) >>
          ELSE <<>>)
         \o StrFrom(o, attrs, k + 1)

\* Object.__str__: the text as the class name and the attributes printed
__str__(o) == [begin |-> o.cls, attrs |-> StrFrom(o, _str_attrs(o.cls), 1)]

\* a __repr__ formatting what __str__ does
repr_as_str(o) == __str__(o)

\* Object.__repr__: _repr_format filled with getattr of every slot
__repr__(o) ==
    [begin |-> o.cls,
     attrs |-> [i \in 1..Len(__slots__(o.cls)) |->
                  [name |-> __slots__(o.cls)[i], conv |-> "r",
                   val |-> o.fields[FieldIndex(o.cls, __slots__(o.cls)[i])]]]]

\* a keyword argument left out, or given one of the values of V
Opt(name, V) == { <<>> } \cup { << <<name, v>> >> : v \in V }

F32Zero == <<0, 0, 0, 0>>
F32One == <<1, 0, 0, 0>>

\* TechProto(id=..., name=..., description=..., published=..., position=...,
\* pre_techs=..., hash_needed=...)
TechKwargs ==
    { a \o b \o c \o d \o e \o g \o h :
        a \in Opt("id", {PyInt(0), PyInt(3)}),
        b \in Opt("name", {PyStr(<<>>), PyStr(Abcd)}),
        c \in Opt("description", {PyStr(Hello)}),
        d \in Opt("published", {PyBool(TRUE)}),
        e \in Opt("position", { PyTuple(<<PyFloat(F32Zero), PyFloat(F32Zero)>>),
                                PyTuple(<<PyFloat(F32One), PyFloat(F32Zero)>>) }),
        g \in Opt("pre_techs", {PyList(<<>>), PyList(<<PyInt(0)>>)}),
        h \in Opt("rank", {PyInt(1)}) }

\* ItemProto(description=..., type=..., reactor_inc=..., id=..., is_fluid=...)
ItemKwargs ==
    { a \o b \o c \o d \o e :
        a \in Opt("description", {PyStr(<<>>), PyStr(Hello)}),
        b \in Opt("type", {PyEnum(0), PyEnum(2)}),
        c \in Opt("reactor_inc", {PyFloat(F32Zero), PyFloat(F32One)}),
        d \in Opt("id", {PyInt(5)}),
        e \in Opt("is_fluid", {PyBool(FALSE), PyBool(TRUE)}) }

\* Branch(name=..., leaves=[Leaf(...)], id=..., weights=...)
BranchKwargs ==
    { a \o b \o c \o d :
        a \in Opt("name", {PyStr(Abcd)}),
        b \in Opt("leaves",
                  { PyList(<<>>),
                    PyList(<< PyObject(generate_init_default("Leaf", <<>>)),
                              PyObject(generate_init_default("Leaf",
                                  << <<"id", PyInt(4)>> >>)) >>) }),
        c \in Opt("id", {PyInt(0), PyInt(2)}),
        d \in Opt("weights", {PyList(<<PyInt(3), PyInt(0)>>)}) }

Kwargs(cls) ==
    CASE cls = "TechProto" -> TechKwargs
      [] cls = "ItemProto" -> ItemKwargs
      [] cls = "Branch"    -> BranchKwargs

\* n zero bytes
ZeroBytes(n) == [i \in 1..n |-> 0]

\* the bytes a record is constructed from: a record of the class, or zeros
RecordBytes(cls) ==
    CASE cls = "TechProto"   -> { TechRec, ZeroBytes(Len(TechRec)) }
      [] cls = "ItemProto"   -> { ItemRec, ZeroBytes(Len(ItemRec)) }
      [] cls = "RecipeProto" -> { RecipeRec, RecipeRecBig,
                                  ZeroBytes(Len(RecipeRec)) }
      [] cls = "TechProtoSet" -> { GoodFile("TechProtoSet") }

\* a generated __init__ whose reader branch ends with the setattr loop too
generated_init_setattr_always(cls, read_fun, kwargs, decoded) ==
    IF read_fun = None THEN generate_init_default(cls, kwargs)
    ELSE [decoded EXCEPT !.fields = SetAttrs(cls, decoded.fields, kwargs, 1)]

\* def __init__(self, read_fun=None, tell_fun=None, /, **kwargs): the
\* branch read_fun is None ends with return; the statements after it, which
\* give the record decoded, do not mention kwargs
generated_init(cls, read_fun, kwargs, decoded) ==
    IF read_fun = None THEN generate_init_default(cls, kwargs)
    ELSE decoded

\* the keyword arguments passed along with a reader
ReaderKwargs(cls) ==
    IF cls \in {"TechProto", "ItemProto"} THEN Kwargs(cls) ELSE { <<>> }

\* what cls(**kwargs) or cls(read_fun, tell_fun) has made is kept
Made(cls, how, kwargs, o) ==
    /\ call' = [fn |-> "init", how |-> how, cls |-> cls, kwargs |-> kwargs]
    /\ cur' = [NoCur EXCEPT !.cls = cls, !.val = o]
    /\ pc' = "object"

\* cls(**kwargs)
NewObject(cls, kwargs) ==
    /\ pc = "idle"
    /\ Made(cls, "kwargs", kwargs,
            generated_init(cls, None, kwargs, [cls |-> cls, fields |-> <<>>]))
    /\ UNCHANGED <<fs, kindIdx, handles, rd, loaded, outcome, heap, visited,
                   found>>

Decoded(cls, kwargs, r) ==
    /\ r.st.err = NoErr
    /\ rd' = r.st
    /\ Made(cls, "reader", kwargs,
            generated_init(cls, "read_fun", kwargs, PyRecord(r.val)))

\* cls(read_fun, tell_fun, **kwargs) over a stream holding data
DecodeObject(cls, data, kwargs) ==
    /\ pc = "idle"
    /\ Decoded(cls, kwargs, Construct(cls, data, NewReader))
    /\ UNCHANGED <<fs, kindIdx, handles, loaded, outcome, heap, visited,
                   found>>

\* str(o) or repr(o) has returned text
Rendered(fn, text) ==
    /\ pc = "object"
    /\ call' = [call EXCEPT !.fn = fn]
    /\ outcome' = [kind |-> "return", err |-> NoErr, val |-> text]
    /\ pc' = "done"
    /\ UNCHANGED <<fs, kindIdx, cur, handles, rd, loaded, heap, visited,
                   found>>

\* str(o)
CallStr ==
    /\ call.fn = "init"
    /\ Rendered("str", __str__(cur.val))

\* repr(o)
CallRepr ==
    /\ call.fn = "init"
    /\ Rendered("repr", __repr__(cur.val))

InitObject ==
    /\ fs = [k \in Kinds |-> Missing]
    /\ pc = "idle"
    /\ call = NoCall
    /\ kindIdx = 0
    /\ cur = NoCur
    /\ handles = <<>>
    /\ rd = NewReader
    /\ loaded = <<>>
    /\ outcome = NoOutcome
    /\ heap = <<>>
    /\ visited = <<>>
    /\ found = NoFound

NextObject ==
    \/ \E cls \in {"TechProto", "ItemProto", "Branch"} :
          \E kwargs \in Kwargs(cls) : NewObject(cls, kwargs)
    \/ \E cls \in {"TechProto", "ItemProto", "RecipeProto", "TechProtoSet"} :
          \E data \in RecordBytes(cls) : \E kwargs \in ReaderKwargs(cls) :
              DecodeObject(cls, data, kwargs)
    \/ CallStr
    \/ CallRepr

SpecObject == InitObject /\ [][NextObject]_vars

(***************************************************************************)
(* Properties of construction and rendering                                *)
(***************************************************************************)

\* the value is not the default of its type: a number that is not zero, a
\* true bool, a string or an array that is not empty, a pair of floats that
\* are not both zero
NonDefault(pv) ==
    CASE pv.t \in {"int", "enum"} -> pv.v # 0
      [] pv.t = "int64"           -> pv.v # <<0, 0, 0, 0, 0, 0, 0, 0>>
      [] pv.t = "float"           -> ~FloatIsZero(pv.v)
      [] pv.t = "bool"            -> pv.v = TRUE
      [] pv.t \in {"str", "list"} -> pv.v # <<>>
      [] pv.t = "tuple"           -> \E i \in 1..Len(pv.v) :
                                        ~FloatIsZero(pv.v[i].v)
      [] pv.t = "object"          -> TRUE

FrontNames == <<"id", "name", "description">>

RECURSIVE FrontPresent(_, _)
\* those of id, name, description (from the k-th on) that cls has
FrontPresent(cls, k) ==
    IF k > Len(FrontNames) THEN <<>>
    ELSE (IF \E i \in 1..Len(Layout(cls)) :
                Layout(cls)[i].name = FrontNames[k]
          THEN <<FrontNames[k]>> ELSE <<>>)
         \o FrontPresent(cls, k + 1)

RECURSIVE OtherNames(_, _)
\* the other fields of cls (from the i-th on), in the order of the layout
OtherNames(cls, i) ==
    IF i > Len(Layout(cls)) THEN <<>>
    ELSE (IF Layout(cls)[i].name \in {"id", "name", "description"}
          THEN <<>> ELSE <<Layout(cls)[i].name>>)
         \o OtherNames(cls, i + 1)

\* the fields of cls with id, name and description first, the others after
\* them in the order of the layout
CompactOrder(cls) == FrontPresent(cls, 1) \o OtherNames(cls, 1)

\* the value record o holds in the field called n
FieldNamed(o, n) ==
    o.fields[CHOOSE i \in 1..Len(Layout(o.cls)) : Layout(o.cls)[i].name = n]

RECURSIVE ListedFrom(_, _, _)
ListedFrom(o, order, k) ==
    IF k > Len(order) THEN <<>>
    ELSE (IF NonDefault(FieldNamed(o, order[k])) THEN <<order[k]>> ELSE <<>>)
         \o ListedFrom(o, order, k + 1)

\* the names the compact rendering of record o is to list
CompactNames(o) == ListedFrom(o, CompactOrder(o.cls), 1)

\* the names a rendering lists, in its order
NamesOf(text) == [i \in 1..Len(text.attrs) |-> text.attrs[i].name]

C12_ReprListsEveryField ==
    (pc = "done" /\ call.fn = "repr")
        => /\ Len(outcome.val.attrs) = Len(Layout(cur.cls))
           /\ \A i \in 1..Len(Layout(cur.cls)) :
                 /\ outcome.val.attrs[i].name = Layout(cur.cls)[i].name
                 /\ outcome.val.attrs[i].val = cur.val.fields[i]

\* repr of a TechProto that has default and non-default fields has returned
C12_Witness ==
    /\ pc = "done" /\ call.fn = "repr" /\ cur.cls = "TechProto"
    /\ Len(outcome.val.attrs) = 26
    /\ outcome.val.attrs[2].val = PyInt(3)
    /\ outcome.val.attrs[7].val = PyInt(0)

\* two Python values are the same value of the same type
PyEq(a, b) == a.t = b.t /\ a.v = b.v

\* the zero value of a field's type: 0 for the numeric types (enum and
\* vector2f among them), false for bool, the empty string, the empty array
ZeroValue(f) ==
    CASE f.method \in {"int32", "int64", "float", "double", "enum",
                       "vector2f"}                     -> PyInt(0)
      [] f.method = "bool"                             -> PyBool(FALSE)
      [] f.method = "string"                           -> PyStr(<<>>)
      [] f.method \in {"array", "array_int32", "array_double"}
                                                       -> PyList(<<>>)

\* the keyword arguments name the field
Overridden(kwargs, name) == \E j \in 1..Len(kwargs) : kwargs[j][1] = name

Supplied(kwargs, name) ==
    kwargs[CHOOSE j \in 1..Len(kwargs) : kwargs[j][1] = name][2]

\* C13: a record constructed without a reader holds, in every field the
\* caller gave a value for, that value, and in every other field the zero
\* value of the field's type.
C13_DefaultsThenOverrides ==
    (pc = "object" /\ call.how = "kwargs")
        => \A i \in 1..Len(Layout(cur.cls)) :
              IF Overridden(call.kwargs, Layout(cur.cls)[i].name)
              THEN PyEq(cur.val.fields[i],
                        Supplied(call.kwargs, Layout(cur.cls)[i].name))
              ELSE PyEq(cur.val.fields[i], ZeroValue(Layout(cur.cls)[i]))

\* TechProto(id=3, name='abcd', ...) has been constructed
C13_Witness ==
    /\ pc = "object" /\ call.how = "kwargs" /\ cur.cls = "TechProto"
    /\ Overridden(call.kwargs, "id") /\ Overridden(call.kwargs, "name")
    /\ cur.val.fields[2] = PyInt(3)
    /\ cur.val.fields[1] = PyStr(Abcd)
    /\ cur.val.fields[4] = PyStr(<<>>)
    /\ cur.val.fields[6] = PyBool(FALSE)

\* a log entry of a field of the record set being constructed
OfRecordSet(e) == e.cls = cur.cls

\* the encoded size of what a read_fun call asked for was there to read
FullRead(r) == r.want >= 0 /\ r.got = r.want

\* C14: a construction from a stream that succeeds has decoded the fields in
\* declaration order, each from where the one before it ended, and has
\* advanced the offset by the sum of the encoded sizes of the fields: every
\* read was given the bytes its field's encoding holds.
C14_DeclaredOrderExactBytes ==
    (pc = "close" /\ rd.err = NoErr)
        => /\ [i \in 1..Len(SelectSeq(rd.log, OfRecordSet)) |->
                  SelectSeq(rd.log, OfRecordSet)[i].name]
                 = __slots__(cur.cls)
           /\ \A i \in 1..(Len(SelectSeq(rd.log, OfRecordSet)) - 1) :
                 SelectSeq(rd.log, OfRecordSet)[i + 1].start
                    = SelectSeq(rd.log, OfRecordSet)[i].stop
           /\ \A i \in 1..Len(rd.reads) : FullRead(rd.reads[i])

\* the enum of the field a log entry is of
EnumOfEntry(e) ==
    Layout(e.cls)[CHOOSE i \in 1..Len(Layout(e.cls)) :
                      Layout(e.cls)[i].name = e.name].arg

\* the entry is of an enum field whose int32 is no member of the enum
NonMember(e) ==
    /\ e.method = "enum"
    /\ Int32At(CurData, e.start) \notin EnumMembers(EnumOfEntry(e))

\* C15 as claimed: decoding an enum field whose int32 value is no member of
\* the enum does not fail.
C15_NonMemberAccepted ==
    Reading => \A i \in 1..Len(rd.log) : NonMember(rd.log[i]) => rd.log[i].ok

\* C15 amended: decoding an enum field fails exactly when its int32 value is
\* no member of the enum; the failure is a ValueError, no later field is
\* decoded (the array and the record set that hold the record fail with it)
\* and load_data raises it.
C15_NonMemberRaises ==
    Reading =>
        \A i \in 1..Len(rd.log) :
            /\ rd.log[i].method = "enum"
                  => (rd.log[i].ok <=> ~NonMember(rd.log[i]))
            /\ NonMember(rd.log[i])
                  => /\ \A j \in (i + 1)..Len(rd.log) : ~rd.log[j].ok
                     /\ rd.err = "ValueError"
                     /\ rd.pos = rd.log[i].stop
                     /\ pc = "done" => (outcome.kind = "raise"
                                          /\ outcome.err = "ValueError")

\* load_data has raised ValueError at a recipe whose type is 9
C15_Witness ==
    /\ pc = "done" /\ call.fn = "load_data" /\ Reading
    /\ outcome.kind = "raise" /\ outcome.err = "ValueError"
    /\ \E i \in 1..Len(rd.log) :
          /\ NonMember(rd.log[i])
          /\ rd.log[i].cls = "RecipeProto"
          /\ Int32At(CurData, rd.log[i].start) = 9

\* the record-set type of a kind: the class of the kind's name
ClassOf(kind) == kind

\* C17: the GameData load_all returns has one entry per declared kind and no
\* other; the entry of kind K was read from the file K of the directory, and
\* is the record set of K's class decoded from that file.
C17_BundleEntries ==
    (pc = "done" /\ call.fn = "load_all" /\ outcome.kind = "return")
        => /\ [i \in 1..Len(outcome.val.items) |-> outcome.val.items[i][1]]
                 = _VALID_TYPES
           /\ [i \in 1..Len(handles) |-> handles[i].file] = _VALID_TYPES
           /\ \A i \in 1..Len(outcome.val.items) :
                 /\ outcome.val.items[i][2].cls
                       = ClassOf(outcome.val.items[i][1])
                 /\ outcome.val.items[i][2]
                       = Construct(ClassOf(outcome.val.items[i][1]),
                                   fs[outcome.val.items[i][1]],
                                   SkipHeader(fs[outcome.val.items[i][1]])).val

\* load_all has returned the four record sets of a directory of well-formed
\* files
C17_Witness ==
    /\ pc = "done" /\ call.fn = "load_all" /\ outcome.kind = "return"
    /\ \A k \in Kinds : fs[k] = GoodFile(k)
    /\ Len(outcome.val.items) = 4
    /\ outcome.val.items[3][2].cls = "StringProtoSet"
    /\ Len(outcome.val.items[3][2].fields[3]) = MaxRecords

\* C18: load_data called with a data type that is none of the declared kinds
\* raises ValueError, with or without a file name, and opens no file and
\* reads no byte before it does.
C18_InvalidTypeRaisesFirst ==
    (call.fn = "load_data" /\ call.data_type \notin Kinds)
        => /\ handles = <<>>
           /\ rd = NewReader
           /\ cur.cls = None
           /\ pc = "done" => (outcome.kind = "raise"
                                /\ outcome.err = "ValueError")

\* load_data('BackerProtoSet', f) has raised, f being a file that exists
C18_Witness ==
    /\ pc = "done" /\ call.fn = "load_data"
    /\ call.data_type = "BackerProtoSet"
    /\ call.filename \in Kinds
    /\ fs[call.filename] = GoodFile(call.filename)
    /\ outcome.kind = "raise"

\* ---------------------------------------------------------------------
\* dyson_wiki.py: which items and recipes are disabled
\* ---------------------------------------------------------------------

STARTING_RECIPES == <<1, 2, 3, 4, 5, 6, 50>>

KEY_TWEAKS ==
    (75 :> 103) @@ (89 :> 85) @@ (92 :> 86) @@ (85 :> 87) @@ (88 :> 88)
    @@ (90 :> 89) @@ (86 :> 90) @@ (91 :> 91) @@ (87 :> 92)

\* the names of the members of ERecipeType, by value
ERecipeTypeName ==
    (0 :> "NONE") @@ (1 :> "SMELT") @@ (2 :> "CHEMICAL") @@ (3 :> "REFINE")
    @@ (4 :> "ASSEMBLE") @@ (5 :> "PARTICLE") @@ (6 :> "EXCHANGE")
    @@ (7 :> "PHOTON_STORE") @@ (8 :> "FRACTIONATE") @@ (15 :> "RESEARCH")

\* the order of str on the names above: all are upper-case ASCII (and "_"),
\* so the order is the alphabetical one
NamesInOrder ==
    <<"ASSEMBLE", "CHEMICAL", "EXCHANGE", "FRACTIONATE", "NONE", "PARTICLE",
      "PHOTON_STORE", "REFINE", "RESEARCH", "SMELT">>

NameRank(name) == CHOOSE i \in 1..Len(NamesInOrder) : NamesInOrder[i] = name

Elements(s) == {s[i] : i \in 1..Len(s)}

\* tuples of integers of one length, compared as Python compares tuples
LexLess(a, b) ==
    \E i \in 1..Len(a) : a[i] < b[i] /\ \A j \in 1..(i - 1) : a[j] = b[j]

\* the place (from 0) list.sort gives to the element i of a list whose
\* elements have the keys given: the sort is stable
SortPlace(keys, i) ==
    Cardinality({j \in 1..Len(keys) :
                    \/ LexLess(keys[j], keys[i])
                    \/ keys[j] = keys[i] /\ j < i})

\* s.sort(key=...), keys[i] being the key of s[i], a tuple of integers
SortedBy(s, keys) ==
    [k \in 1..Len(s) |-> s[CHOOSE i \in 1..Len(s) : SortPlace(keys, i) = k - 1]]

id_key(x) == <<x.id>>

recipe_key(recipe) ==
    IF recipe.id \in DOMAIN KEY_TWEAKS THEN KEY_TWEAKS[recipe.id] ELSE recipe.id

recipe_sort_key(x) ==
    <<x.grid_index \div 1000, NameRank(ERecipeTypeName[x.type]), recipe_key(x)>>

\* The locals of create_augmented_maps: the two maps, id -> [object,
\* is_disabled], and the exception raised so far.
NoMaps == [items_map |-> <<>>, recipes_map |-> <<>>, err |-> NoErr]

Entry(obj, disabled) == [obj |-> obj, disabled |-> disabled]

RECURSIVE MarkResults(_, _, _)
\* for iid in recipe_entry[0].results: items_map[iid][1] = False
MarkResults(m, results, k) ==
    IF m.err # NoErr \/ k > Len(results) THEN m
    ELSE IF results[k] \notin DOMAIN m.items_map
         THEN [m EXCEPT !.err = "KeyError"]
         ELSE MarkResults([m EXCEPT !.items_map[results[k]].disabled = FALSE],
                          results, k + 1)

\* set_valid without the loop over the results
set_valid_recipe_only(m, rid) ==
    [m EXCEPT !.recipes_map[rid].disabled = FALSE]

\* set_valid(items_map, recipe_entry), the entry being recipes_map[rid]
set_valid(m, rid) ==
    MarkResults([m EXCEPT !.recipes_map[rid].disabled = FALSE],
                m.recipes_map[rid].obj.results, 1)

RECURSIVE ItemsLoop(_, _, _)
\* for item in items: items_map[item.id] = [item, item.unlock_key == 0]
ItemsLoop(m, items, k) ==
    IF k > Len(items) THEN m
    ELSE ItemsLoop([m EXCEPT !.items_map =
                        (items[k].id :> Entry(items[k], items[k].unlock_key = 0))
                        @@ m.items_map],
                   items, k + 1)

WithRecipe(m, rec) ==
    [m EXCEPT !.recipes_map = (rec.id :> Entry(rec, TRUE)) @@ m.recipes_map]

RECURSIVE RecipesLoop(_, _, _)
\* for rec in recipes: ... if rec.id in STARTING_RECIPES: set_valid(...)
RecipesLoop(m, recipes, k) ==
    IF m.err # NoErr \/ k > Len(recipes) THEN m
    ELSE RecipesLoop(IF recipes[k].id \in Elements(STARTING_RECIPES)
                     THEN set_valid(WithRecipe(m, recipes[k]), recipes[k].id)
                     ELSE WithRecipe(m, recipes[k]),
                     recipes, k + 1)

RECURSIVE UnlockLoop(_, _, _)
\* for rid in tech.unlock_recipes: set_valid(items_map, recipes_map[rid])
UnlockLoop(m, unlock_recipes, k) ==
    IF m.err # NoErr \/ k > Len(unlock_recipes) THEN m
    ELSE IF unlock_recipes[k] \notin DOMAIN m.recipes_map
         THEN [m EXCEPT !.err = "KeyError"]
         ELSE UnlockLoop(set_valid(m, unlock_recipes[k]), unlock_recipes, k + 1)

RECURSIVE TechsLoopAll(_, _, _)
\* the loop over the techs without "if not tech.published: continue"
TechsLoopAll(m, techs, k) ==
    IF m.err # NoErr \/ k > Len(techs) THEN m
    ELSE TechsLoopAll(UnlockLoop(m, techs[k].unlock_recipes, 1), techs, k + 1)

RECURSIVE TechsLoop(_, _, _)
\* for tech in techs: if not tech.published: continue ...
TechsLoop(m, techs, k) ==
    IF m.err # NoErr \/ k > Len(techs) THEN m
    ELSE TechsLoop(IF ~techs[k].published THEN m
                   ELSE UnlockLoop(m, techs[k].unlock_recipes, 1),
                   techs, k + 1)

\* The data given to create_augmented_maps: three items, three recipes (one
\* of them a starting recipe, two with tweaked sort keys) and up to MaxTechs
\* techs, none of the arrays in sorted order. Item 4 and recipe 7 do not
\* exist. Ids are unique within each array.
MaxTechs == 2

Item(id, unlock_key) == [id |-> id, unlock_key |-> unlock_key]

Recipe(id, type, grid_index, results) ==
    [id |-> id, type |-> type, grid_index |-> grid_index, results |-> results]

Tech(id, published, unlock_recipes) ==
    [id |-> id, published |-> published, unlock_recipes |-> unlock_recipes]

ItemArrays ==
    {<<Item(2, 0), Item(1, 0), Item(3, unlock_key)>> : unlock_key \in {0, 1}}

RecipeArrays ==
    {<<Recipe(90, 4, 2101, r90), Recipe(89, 4, 2102, r89), Recipe(1, 1, 1101, r1)>> :
        r90 \in {<<3>>, <<4>>}, r89 \in {<<2>>, <<2, 3>>},
        r1 \in {<<1>>, <<4>>}}

UnlockLists == {<<89>>, <<1, 90>>, <<7>>}

TechsOfLen(n) ==
    {[k \in 1..n |-> Tech(10 - k, p[k], u[k])] :
        p \in [1..n -> BOOLEAN], u \in [1..n -> UnlockLists]}

TechArrays == UNION {TechsOfLen(n) : n \in 0..MaxTechs}

GameDatas ==
    {[ItemProtoSet |-> i, RecipeProtoSet |-> r, TechProtoSet |-> t] :
        i \in ItemArrays, r \in RecipeArrays, t \in TechArrays}

\* create_augmented_maps(data) is called
create_augmented_maps(data) ==
    /\ pc = "idle"
    /\ call' = [fn |-> "create_augmented_maps"]
    /\ heap' = data
    /\ cur' = NoMaps
    /\ pc' = "items"
    /\ UNCHANGED <<fs, kindIdx, handles, rd, loaded, outcome, visited, found>>

\* items.sort(key=lambda x:x.id) and the loop that fills items_map
FillItemsMap(items) ==
    /\ heap' = [heap EXCEPT !.ItemProtoSet = items]
    /\ cur' = ItemsLoop(cur, items, 1)
    /\ pc' = "recipes"
    /\ UNCHANGED <<fs, call, kindIdx, handles, rd, loaded, outcome, visited,
                   found>>

items_loop ==
    /\ pc = "items"
    /\ FillItemsMap(SortedBy(heap.ItemProtoSet,
                             [i \in 1..Len(heap.ItemProtoSet) |->
                                 id_key(heap.ItemProtoSet[i])]))

\* recipes.sort(...) and the loop that fills recipes_map
FillRecipesMap(recipes, m) ==
    /\ heap' = [heap EXCEPT !.RecipeProtoSet = recipes]
    /\ cur' = m
    /\ IF m.err # NoErr
       THEN Raise(m.err)
       ELSE pc' = "techs" /\ UNCHANGED outcome
    /\ UNCHANGED <<fs, call, kindIdx, handles, rd, loaded, visited, found>>

SortedRecipes ==
    SortedBy(heap.RecipeProtoSet,
             [i \in 1..Len(heap.RecipeProtoSet) |->
                 recipe_sort_key(heap.RecipeProtoSet[i])])

recipes_loop ==
    /\ pc = "recipes"
    /\ FillRecipesMap(SortedRecipes, RecipesLoop(cur, SortedRecipes, 1))

\* techs.sort(key=lambda x:x.id), the loop over the techs and the return
UnlockByTechs(techs, m) ==
    /\ heap' = [heap EXCEPT !.TechProtoSet = techs]
    /\ cur' = m
    /\ IF m.err # NoErr
       THEN Raise(m.err)
       ELSE /\ outcome' = [kind |-> "return", err |-> NoErr,
                           val |-> <<m.items_map, m.recipes_map>>]
            /\ pc' = "done"
    /\ UNCHANGED <<fs, call, kindIdx, handles, rd, loaded, visited, found>>

SortedTechs ==
    SortedBy(heap.TechProtoSet,
             [i \in 1..Len(heap.TechProtoSet) |-> id_key(heap.TechProtoSet[i])])

techs_loop ==
    /\ pc = "techs"
    /\ UnlockByTechs(SortedTechs, TechsLoop(cur, SortedTechs, 1))

\* ---------------------------------------------------------------------
\* dyson_wiki.py: looking an entry up by id or by name
\* ---------------------------------------------------------------------

\* A str is the sequence of its characters.
ascii_lowercase ==
    <<"a", "b", "c", "d", "e", "f", "g", "h", "i", "j", "k", "l", "m", "n",
      "o", "p", "q", "r", "s", "t", "u", "v", "w", "x", "y", "z">>

ascii_uppercase ==
    <<"A", "B", "C", "D", "E", "F", "G", "H", "I", "J", "K", "L", "M", "N",
      "O", "P", "Q", "R", "S", "T", "U", "V", "W", "X", "Y", "Z">>

digits == <<"0", "1", "2", "3", "4", "5", "6", "7", "8", "9">>

IndexIn(s, c) == CHOOSE i \in 1..Len(s) : s[i] = c

\* a character left as it is by str.lower
lower_char_unchanged(c) == c

lower_char(c) ==
    IF c \in Elements(ascii_uppercase)
    THEN ascii_lowercase[IndexIn(ascii_uppercase, c)]
    ELSE c

\* str.lower()
lower(s) == [i \in 1..Len(s) |-> lower_char(s[i])]

\* str.islower(): no upper-case character and at least one lower-case one
islower(s) ==
    /\ \A i \in 1..Len(s) : s[i] \notin Elements(ascii_uppercase)
    /\ \E i \in 1..Len(s) : s[i] \in Elements(ascii_lowercase)

\* sub in s
Contains(sub, s) ==
    \E i \in 0..(Len(s) - Len(sub)) : SubSeq(s, i + 1, i + Len(sub)) = sub

RECURSIVE DigitsValue(_, _, _)
\* the value of the decimal digits s[k..], after those of value acc
DigitsValue(s, k, acc) ==
    IF k > Len(s) THEN acc
    ELSE DigitsValue(s, k + 1, 10 * acc + IndexIn(digits, s[k]) - 1)

IsDigits(s) == Len(s) > 0 /\ \A i \in 1..Len(s) : s[i] \in Elements(digits)

\* int(s) for a str of digits, "+" and "-": an optional sign and at least
\* one digit, anything else raises ValueError (the white space and the
\* underscores int accepts too are not among the characters of the terms)
int(s) ==
    IF IsDigits(s) THEN [ok |-> TRUE, v |-> DigitsValue(s, 1, 0)]
    ELSE IF Len(s) > 1 /\ s[1] \in {"+", "-"} /\ IsDigits(Tail(s))
    THEN [ok |-> TRUE,
          v |-> IF s[1] = "-" THEN 0 - DigitsValue(s, 2, 0)
                ELSE DigitsValue(s, 2, 0)]
    ELSE [ok |-> FALSE, v |-> 0]

Returned(val) == [kind |-> "return", err |-> NoErr, val |-> val]

Raised(err) == [kind |-> "raise", err |-> err, val |-> <<>>]

RECURSIVE IdLoop(_, _, _)
\* for val in lst: if val.id == idd: return val
\* raise RuntimeError('Id %d not found!' % idd)
IdLoop(idd, lst, k) ==
    IF k > Len(lst) THEN Raised("RuntimeError")
    ELSE IF lst[k].id = idd THEN Returned(lst[k])
    ELSE IdLoop(idd, lst, k + 1)

Folded(name, insensitive) == IF insensitive THEN lower(name) ELSE name

RECURSIVE NameLoopFirstMatch(_, _, _, _, _)
\* the loop over the names returning the first entry that contains the term
NameLoopFirstMatch(name_or_id, insensitive, lst, k, matches) ==
    IF k > Len(lst) THEN Raised("RuntimeError")
    ELSE IF Contains(name_or_id, Folded(lst[k].name, insensitive))
    THEN Returned(lst[k])
    ELSE NameLoopFirstMatch(name_or_id, insensitive, lst, k + 1, matches)

RECURSIVE NameLoop(_, _, _, _, _)
\* the except ValueError branch, from entry k on
NameLoop(name_or_id, insensitive, lst, k, matches) ==
    IF k > Len(lst)
    THEN IF Len(matches) = 1 THEN Returned(matches[1])
         ELSE Raised("RuntimeError")
    ELSE IF name_or_id = lst[k].name THEN Returned(lst[k])
    ELSE NameLoop(name_or_id, insensitive, lst, k + 1,
                  IF Contains(name_or_id, Folded(lst[k].name, insensitive))
                  THEN Append(matches, lst[k])
                  ELSE matches)

Lookup(name_or_id, lst) ==
    IF int(name_or_id).ok
    THEN IdLoop(int(name_or_id).v, lst, 1)
    ELSE NameLoop(name_or_id, islower(name_or_id), lst, 1, <<>>)

\* The terms looked up: up to MaxTerm characters, among them letters of
\* both cases, digits and a sign. The lists: up to MaxEntries entries, in
\* any order, with names that contain one another and differ by case only.
MaxTerm == 2

MaxEntries == 3

TermChars == {"a", "A", "b", "1", "-"}

Terms == UNION {[1..n -> TermChars] : n \in 0..MaxTerm}

Named(id, name) == [id |-> id, name |-> name]

Entries ==
    {Named(1, <<"a", "b">>), Named(2, <<"A", "b">>), Named(11, <<"a">>),
     Named(3, <<"a", "B", "-">>)}

EntryLists ==
    UNION {{l \in [1..n -> Entries] :
               \A i, j \in 1..n : i # j => l[i] # l[j]} : n \in 0..MaxEntries}

\* fuzzy_lookup_item(name_or_id, lst)
fuzzy_lookup_item(name_or_id, lst) ==
    /\ pc = "idle"
    /\ call' = [fn |-> "fuzzy_lookup_item", name_or_id |-> name_or_id,
                lst |-> lst]
    /\ outcome' = Lookup(name_or_id, lst)
    /\ pc' = "done"
    /\ UNCHANGED <<fs, kindIdx, cur, handles, rd, loaded, heap, visited,
                   found>>

InitWiki ==
    /\ fs = [k \in Kinds |-> Missing]
    /\ pc = "idle"
    /\ call = NoCall
    /\ kindIdx = 0
    /\ cur = NoCur
    /\ handles = <<>>
    /\ rd = NewReader
    /\ loaded = <<>>
    /\ outcome = NoOutcome
    /\ heap = <<>>
    /\ visited = <<>>
    /\ found = NoFound

NextWiki ==
    \/ \E data \in GameDatas : create_augmented_maps(data)
    \/ items_loop
    \/ recipes_loop
    \/ techs_loop
    \/ \E name_or_id \in Terms : \E lst \in EntryLists :
          fuzzy_lookup_item(name_or_id, lst)

SpecWiki == InitWiki /\ [][NextWiki]_vars

\* ---------------------------------------------------------------------
\* Properties of the disabled marks
\* ---------------------------------------------------------------------

MapsReturned ==
    /\ call.fn = "create_augmented_maps"
    /\ pc = "done"
    /\ outcome.kind = "return"

items_map == outcome.val[1]

recipes_map == outcome.val[2]

\* the published techs that list recipe rid in unlock_recipes
Unlocking(rid, published) ==
    {k \in 1..Len(heap.TechProtoSet) :
        /\ heap.TechProtoSet[k].published = published
        /\ rid \in Elements(heap.TechProtoSet[k].unlock_recipes)}

ProducedByEnabled(iid) ==
    \E rid \in DOMAIN recipes_map :
        /\ ~recipes_map[rid].disabled
        /\ iid \in Elements(recipes_map[rid].obj.results)

\* C19: when create_augmented_maps returns, every recipe and every item of
\* the data has an entry under its id; a recipe is marked not disabled if
\* and only if its id is a starting recipe or some published tech lists it
\* in unlock_recipes; an item is marked disabled if and only if its
\* unlock_key is 0 and no recipe marked not disabled has it among its
\* results; a recipe that is not a starting recipe and is listed only by
\* unpublished techs is marked disabled.
C19_DisabledMarks ==
    MapsReturned =>
        /\ DOMAIN recipes_map = {r.id : r \in Elements(heap.RecipeProtoSet)}
        /\ DOMAIN items_map = {i.id : i \in Elements(heap.ItemProtoSet)}
        /\ \A r \in Elements(heap.RecipeProtoSet) :
              /\ recipes_map[r.id].obj = r
              /\ ~recipes_map[r.id].disabled
                 <=> \/ r.id \in Elements(STARTING_RECIPES)
                     \/ Unlocking(r.id, TRUE) # {}
              /\ (/\ r.id \notin Elements(STARTING_RECIPES)
                  /\ Unlocking(r.id, FALSE) # {}
                  /\ Unlocking(r.id, TRUE) = {})
                 => recipes_map[r.id].disabled
        /\ \A i \in Elements(heap.ItemProtoSet) :
              /\ items_map[i.id].obj = i
              /\ items_map[i.id].disabled
                 <=> (i.unlock_key = 0 /\ ~ProducedByEnabled(i.id))

\* a return where a recipe is enabled by a published tech only, another is
\* listed by an unpublished tech only and stays disabled, one item is
\* enabled as a result and another with unlock_key 0 stays disabled
C19_Witness ==
    /\ MapsReturned
    /\ ~recipes_map[89].disabled
    /\ Unlocking(89, TRUE) # {}
    /\ recipes_map[90].disabled
    /\ Unlocking(90, FALSE) # {}
    /\ ~items_map[2].disabled
    /\ items_map[2].obj.unlock_key = 0
    /\ items_map[3].disabled
    /\ 3 \in Elements(recipes_map[90].obj.results)

\* ---------------------------------------------------------------------
\* Properties of the lookup
\* ---------------------------------------------------------------------

LookedUp == call.fn = "fuzzy_lookup_item" /\ pc = "done"

WithId(idd) == {k \in 1..Len(call.lst) : call.lst[k].id = idd}

Exact == {k \in 1..Len(call.lst) : call.lst[k].name = call.name_or_id}

NoUpperCase(s) == \A i \in 1..Len(s) : s[i] \notin Elements(ascii_uppercase)

\* the entries whose name contains the term, whatever the case of the
\* letters of the name when the term has no upper-case letter
Containing ==
    {k \in 1..Len(call.lst) :
        Contains(call.name_or_id,
                 IF NoUpperCase(call.name_or_id)
                 THEN lower(call.lst[k].name)
                 ELSE call.lst[k].name)}

ReturnsOneOf(S) ==
    /\ outcome.kind = "return"
    /\ \E k \in S : outcome.val = call.lst[k]

RaisesError == outcome.kind = "raise" /\ outcome.err = "RuntimeError"

\* C20: fuzzy_lookup_item with a term that parses as an integer returns an
\* entry whose id is that integer, or raises if there is none; with any
\* other term it returns an entry whose name equals the term if there is
\* one, however many names contain the term and wherever the entry is in
\* the list; otherwise it returns the only entry whose name contains the
\* term (letter case disregarded when the term is all lower-case), and
\* raises if no name or several names contain it.
C20_FuzzyLookup ==
    LookedUp =>
        IF int(call.name_or_id).ok
        THEN IF WithId(int(call.name_or_id).v) # {}
             THEN ReturnsOneOf(WithId(int(call.name_or_id).v))
             ELSE RaisesError
        ELSE IF Exact # {} THEN ReturnsOneOf(Exact)
        ELSE IF Cardinality(Containing) = 1 THEN ReturnsOneOf(Containing)
        ELSE RaisesError

\* the term is all lower-case, three names contain it when case is
\* disregarded, the one that equals it is not the first of them, and it is
\* returned
C20_Witness ==
    /\ LookedUp
    /\ ~int(call.name_or_id).ok
    /\ islower(call.name_or_id)
    /\ Cardinality(Containing) = 3
    /\ Exact # {}
    /\ \A k \in Exact : \E j \in Containing : j < k
    /\ ReturnsOneOf(Exact)

\* ---------------------------------------------------------------------
\* Properties of the offsets
\* ---------------------------------------------------------------------

\* the first n calls of read_fun asked for a number of bytes that is not
\* negative and were given them all
AllFull(n) == \A k \in 1..n : FullRead(rd.reads[k])

\* a field decoded without an exception from bytes that were all there
CompletelyDecoded(e) == e.ok /\ AllFull(e.reads)

\* C21: while a file is loaded, every field that has been decoded
\* completely (no exception, every length read so far not negative and
\* every read given all its bytes) has consumed a multiple of 4 bytes and
\* ends at an offset that is a multiple of 4; and when the reader is
\* constructed from reads given all their bytes, its offset, past the
\* wrapper if there is one, is a multiple of 4.
C21_FourByteAligned ==
    Reading =>
        /\ (pc = "construct" /\ AllFull(Len(rd.reads))) => rd.pos % 4 = 0
        /\ \A i \in 1..Len(rd.log) :
              CompletelyDecoded(rd.log[i])
                 => /\ rd.log[i].stop % 4 = 0
                    /\ (rd.log[i].stop - rd.log[i].start) % 4 = 0

\* a wrapped file whose name has a length that is no multiple of 4 has been
\* loaded, and a string of a length that is no multiple of 4, a bool and an
\* enum are among its completely decoded fields
C21_Witness ==
    /\ Reading
    /\ pc = "done"
    /\ outcome.kind = "return"
    /\ HasHeader(CurData)
    /\ Int32At(CurData, 28) % 4 # 0
    /\ \E i \in 1..Len(rd.log) :
          /\ rd.log[i].method = "string"
          /\ CompletelyDecoded(rd.log[i])
          /\ Int32At(CurData, rd.log[i].start) % 4 # 0
    /\ \E i \in 1..Len(rd.log) :
          rd.log[i].method = "bool" /\ CompletelyDecoded(rd.log[i])
    /\ \E i \in 1..Len(rd.log) :
          rd.log[i].method = "enum" /\ CompletelyDecoded(rd.log[i])

\* ---------------------------------------------------------------------
\* Properties of construction with a reader and keyword arguments
\* ---------------------------------------------------------------------

\* what the reader logged for the i-th field of the record constructed
FieldLog(i) == SelectSeq(rd.log, OfRecordSet)[i]

\* the field holds what was decoded for it from the stream (for an array of
\* records: as many records as were decoded)
HoldsDecoded(i) ==
    IF Layout(cur.cls)[i].method = "array"
    THEN cur.val.fields[i].t = "list"
         /\ Len(cur.val.fields[i].v) = FieldLog(i).val
    ELSE PyEq(cur.val.fields[i], PyValue(Layout(cur.cls)[i], FieldLog(i).val))

\* C22: a record constructed with a reader holds in every field the value
\* decoded from the stream, whatever keyword arguments were passed along;
\* a record constructed without a reader holds the value of each keyword
\* argument that names a field.
C22_ReaderIgnoresOverrides ==
    pc = "object" =>
        /\ call.how = "reader"
              => /\ Len(cur.val.fields) = Len(Layout(cur.cls))
                 /\ \A i \in 1..Len(Layout(cur.cls)) : HoldsDecoded(i)
        /\ call.how = "kwargs"
              => \A i \in 1..Len(Layout(cur.cls)) :
                    Overridden(call.kwargs, Layout(cur.cls)[i].name)
                       => PyEq(cur.val.fields[i],
                               Supplied(call.kwargs, Layout(cur.cls)[i].name))

\* a TechProto has been constructed with a reader and with id and name
\* given as keyword arguments, and neither field holds the value given
C22_Witness ==
    /\ pc = "object" /\ call.how = "reader" /\ cur.cls = "TechProto"
    /\ Overridden(call.kwargs, "id") /\ Overridden(call.kwargs, "name")
    /\ ~PyEq(cur.val.fields[2], Supplied(call.kwargs, "id"))
    /\ ~PyEq(cur.val.fields[1], Supplied(call.kwargs, "name"))
    /\ HoldsDecoded(1) /\ HoldsDecoded(2)

====
